---------------------------- MODULE Spec2Model ----------------------------
(***************************************************************************)
(* A model of the Concordium hardware-wallet client library: the path      *)
(* encoder, the canonical transaction serializer, the frame splitter and   *)
(* the staged protocol dispatcher that sends the frames to the device.     *)
(*                                                                         *)
(* Two revisions of the dispatcher class are in the repository and both    *)
(* are modelled: src/src/Concordium.ts (RevA) and src/unnamed/part_000     *)
(* (RevB).  The variable rev says which class the instance was built from. *)
(*                                                                         *)
(* Buffers are sequences of bytes (0..255).  Numbers handed to the numeric *)
(* encoders are records [neg, mag, int]: a sign, the magnitude as          *)
(* big-endian bytes without leading zeros, and whether the value is an     *)
(* integer; this keeps 64-bit values and the values just past them exact.  *)
(***************************************************************************)
EXTENDS Integers, Sequences, FiniteSets, TLC

VARIABLES rev, calls, wire, appAPIlock, encoding

vars == <<rev, calls, wire, appAPIlock, encoding>>

RevA == "src/src/Concordium.ts"
RevB == "src/unnamed/part_000"
RevC == "src/unnamed/part_001"

-----------------------------------------------------------------------------
(* Program constants: src/src/serialization.ts and src/src/Concordium.ts   *)

MAX_CHUNK_SIZE == 255
MAX_SCHEDULE_CHUNK_SIZE == 15
HEADER_LENGTH == 60
TRANSACTION_KIND_LENGTH == 1
INDEX_LENGTH == 1
ONE_OCTET_LENGTH == 1
BITMAP_LENGTH == 2
STAKING_PAYLOAD_LENGTH == 8
RESTAKE_EARNINGS_PAYLOAD_LENGTH == 1
OPEN_FOR_DELEGATION_PAYLOAD_LENGTH == 1
KEYS_AGGREGATION_LENGTH == 160
KEYS_ELECTION_AND_SIGNATURE_LENGTH == 192
KEYS_PAYLOAD_LENGTH == KEYS_ELECTION_AND_SIGNATURE_LENGTH + KEYS_AGGREGATION_LENGTH
METADATA_URL_LENGTH == 2
TRANSACTION_FEE_COMMISSION_LENGTH == 4
BAKING_REWARD_COMMISSION_LENGTH == 4
FINALIZATION_REWARD_COMMISSION_LENGTH == 4
KEY_LENGTH == 32
REG_ID_LENGTH == 48
IP_IDENTITY_LENGTH == 4
AR_DATA_LENGTH == 2
ID_CRED_PUB_SHARE_LENGTH == 96
VALID_TO_LENGTH == 3
CREATED_AT_LENGTH == 3
ATTRIBUTES_LENGTH == 2
TAG_LENGTH == 1
VALUE_LENGTH == 1
PROOF_LENGTH_LENGTH == 4
CREDENTIAL_ID_LENGTH == 48

LEDGER_CLA == 224
NONE == 0
P1_LEGACY_VERIFY_ADDRESS == 0
P1_VERIFY_ADDRESS == 1
P1_NON_CONFIRM == 0
P1_CONFIRM == 1
P2_SIGNED_KEY == 1
P1_FIRST_BATCH == 1
P1_AGGREGATION_KEY == 2
P1_URL_LENGTH == 3
P1_URL == 4
P1_COMMISSION_FEE == 5
P1_FIRST_CHUNK == 0
P1_INITIAL_WITH_MEMO == 1
P1_INITIAL_WITH_MEMO_SCHEDULE == 2
P1_MEMO_SCHEDULE == 3
P1_REMAINING_AMOUNT == 1
P1_DATA == 1
P1_PROOF == 2
P1_MEMO == 2
P1_AMOUNT == 3
P2_MORE == 128
P2_LAST == 0
P1_INITIAL_PACKET == 0
P1_SCHEDULED_TRANSFER_PAIRS == 1
P1_SOURCE == 1
P2_CREDENTIAL_INITIAL == 0
P2_CREDENTIAL_CREDENTIAL_INDEX == 1
P2_CREDENTIAL_CREDENTIAL == 2
P2_CREDENTIAL_ID_COUNT == 3
P2_CREDENTIAL_ID == 4
P2_THRESHOLD == 5
P1_VERIFICATION_KEY_LENGTH == 10
P1_VERIFICATION_KEY == 1
P1_SIGNATURE_THRESHOLD == 2
P1_AR_IDENTITY == 3
P1_CREDENTIAL_DATES == 4
P1_ATTRIBUTE_TAG == 5
P1_ATTRIBUTE_VALUE == 6
P1_LENGTH_OF_PROOFS == 7
P1_PROOFS == 8
P1_NEW_OR_EXISTING == 9

INS_VERIFY_ADDRESS == 0
INS_GET_PUBLIC_KEY == 1
INS_GET_VERSION == 3
INS_SIGN_TRANSFER == 2
INS_SIGN_TRANSFER_SCHEDULE == 3
INS_SIGN_CREDENTIAL_DEPLOYMENT == 4
INS_SIGN_TRANSFER_TO_PUBLIC == 18
INS_SIGN_CONFIGURE_DELEGATION == 23
INS_SIGN_CONFIGURE_BAKER == 24
INS_SIGN_PUBLIC_INFO_FOR_IP == 32
INS_SIGN_UPDATE_CREDENTIALS == 49
INS_SIGN_TRANSFER_MEMO == 50
INS_SIGN_TRANSFER_SCHEDULE_AND_MEMO == 52
INS_SIGN_REGISTER_DATA == 53
INS_SIGN_DEPLOY_MODULE == 6
INS_SIGN_INIT_CONTRACT == 6
INS_SIGN_UPDATE_CONTRACT == 6

-----------------------------------------------------------------------------
(* Buffers                                                                 *)

Min(a, b) == IF a < b THEN a ELSE b
Max(a, b) == IF a > b THEN a ELSE b

\* n opaque bytes (an address, a key, a module source); the bytes differ by
\* position so that a lost, repeated or moved byte shows.
Bytes(n, seed) == [i \in 1..n |-> (seed + 7 * i) % 256]

\* Buffer.subarray(start, end): both bounds are clamped to the buffer.
subarray(buf, start, end) ==
    LET s == Min(Max(start, 0), Len(buf))
        e == Min(Max(end, 0), Len(buf))
    IN  IF e <= s THEN << >> ELSE SubSeq(buf, s + 1, e)

\* Buffer.concat of a list of buffers.
RECURSIVE concatRange(_, _, _)
concatRange(bufs, lo, hi) ==
    IF lo > hi THEN << >>
    ELSE IF lo = hi THEN bufs[lo]
    ELSE concatRange(bufs, lo, (lo + hi) \div 2) \o concatRange(bufs, (lo + hi) \div 2 + 1, hi)

concat(bufs) == concatRange(bufs, 1, Len(bufs))

\* Buffer.toString("hex"): two hexadecimal digits per byte, high digit first.
RECURSIVE toHex(_)
toHex(buf) ==
    IF buf = << >> THEN << >>
    ELSE << Head(buf) \div 16, Head(buf) % 16 >> \o toHex(Tail(buf))

\* The big-endian bytes of a natural number below 2^31, in w <= 4 bytes.
BE(n, w) == [i \in 1..w |-> (n \div (256 ^ (w - i))) % 256]

-----------------------------------------------------------------------------
(* Numbers and the numeric encoders of src/src/utils.ts                    *)

RECURSIVE NatMag(_)
NatMag(n) == IF n = 0 THEN << >> ELSE NatMag(n \div 256) \o << n % 256 >>

\* The number n (a natural below 2^31) as the encoders see it.
Num(n) == [neg |-> FALSE, mag |-> NatMag(n), int |-> TRUE]
NumNeg(n) == [neg |-> TRUE, mag |-> NatMag(n), int |-> TRUE]

\* 2^64 - 1, 2^64 and 2^64 + 1
Word64Max == [neg |-> FALSE, mag |-> [i \in 1..8 |-> 255], int |-> TRUE]
TwoTo64 == [neg |-> FALSE, mag |-> <<1, 0, 0, 0, 0, 0, 0, 0, 0>>, int |-> TRUE]
TwoTo64Plus1 == [neg |-> FALSE, mag |-> <<1, 0, 0, 0, 0, 0, 0, 0, 1>>, int |-> TRUE]

RECURSIVE LexGreater(_, _)
LexGreater(a, b) ==
    IF a = << >> THEN FALSE
    ELSE IF Head(a) # Head(b) THEN Head(a) > Head(b)
    ELSE LexGreater(Tail(a), Tail(b))

MagGreater(a, b) ==
    \/ Len(a) > Len(b)
    \/ Len(a) = Len(b) /\ LexGreater(a, b)

\* v > w on numbers (zero has an empty magnitude, whatever its sign flag)
NumNegative(v) == v.neg /\ v.mag # << >>
NumGreater(v, w) ==
    IF NumNegative(v)
    THEN NumNegative(w) /\ MagGreater(w.mag, v.mag)
    ELSE NumNegative(w) \/ MagGreater(v.mag, w.mag)

\* The low w bytes of a magnitude, left-padded with zeros: what a DataView
\* setter keeps of a value.
LowBytes(mag, w) ==
    [i \in 1..w |-> IF Len(mag) - w + i >= 1 THEN mag[Len(mag) - w + i] ELSE 0]

\* Two's complement of a negative value in w bytes (DataView.setInt32, Buffer.of).
RECURSIVE Negate(_)
Negate(b) ==
    IF b = << >> THEN << >>
    ELSE LET rest == SubSeq(b, 1, Len(b) - 1)
             last == b[Len(b)]
         IN  IF last = 0 THEN Negate(rest) \o <<0>>
             ELSE [i \in 1..Len(rest) |-> 255 - rest[i]] \o <<256 - last>>

Signed(v, w) == IF NumNegative(v) THEN Negate(LowBytes(v.mag, w)) ELSE LowBytes(v.mag, w)

Thrown(e) == [ok |-> FALSE, bytes |-> << >>, err |-> e]
Encoded(b) == [ok |-> TRUE, bytes |-> b, err |-> "none"]

RangeError == "encoding range error"

\* The bounds of encodeInt8.
INT8_MAX == 127

Int8Min == [neg |-> TRUE, mag |-> <<128>>, int |-> TRUE]
Int8Max == [neg |-> FALSE, mag |-> <<127>>, int |-> TRUE]
Int32Min == [neg |-> TRUE, mag |-> <<128, 0, 0, 0>>, int |-> TRUE]
Int32Max == [neg |-> FALSE, mag |-> <<127, 255, 255, 255>>, int |-> TRUE]
Word32Max == [neg |-> FALSE, mag |-> <<255, 255, 255, 255>>, int |-> TRUE]
Word16Max == [neg |-> FALSE, mag |-> <<255, 255>>, int |-> TRUE]
Zero == [neg |-> FALSE, mag |-> << >>, int |-> TRUE]

encodeInt8(value) ==
    IF NumGreater(value, Int8Max) \/ NumGreater(Int8Min, value) \/ ~value.int
    THEN Thrown(RangeError)
    ELSE Encoded(Signed(value, 1))

\* The bound of the test is the literal 18446744073709551615 read as a double,
\* which is 2^64; DataView.setBigUint64 keeps the low 64 bits of its argument
\* and refuses (TypeError) a value that is not an integer.
encodeWord64(value) ==
    IF NumGreater(value, TwoTo64) \/ NumGreater(Zero, value)
    THEN Thrown(RangeError)
    ELSE IF ~value.int THEN Thrown("TypeError")
    ELSE Encoded(LowBytes(value.mag, 8))

encodeInt32(value) ==
    IF NumGreater(Int32Min, value) \/ NumGreater(value, Int32Max) \/ ~value.int
    THEN Thrown(RangeError)
    ELSE Encoded(Signed(value, 4))

\* A 32-bit encoder whose upper bound is one too high.
encodeWord32_boundTooHigh(value) ==
    IF NumGreater(value, [neg |-> FALSE, mag |-> <<1, 0, 0, 0, 0>>, int |-> TRUE])
           \/ NumGreater(Zero, value) \/ ~value.int
    THEN Thrown(RangeError)
    ELSE Encoded(LowBytes(value.mag, 4))

encodeWord32(value) ==
    IF NumGreater(value, Word32Max) \/ NumGreater(Zero, value) \/ ~value.int
    THEN Thrown(RangeError)
    ELSE Encoded(LowBytes(value.mag, 4))

encodeWord16(value) ==
    IF NumGreater(value, Word16Max) \/ NumGreater(Zero, value) \/ ~value.int
    THEN Thrown(RangeError)
    ELSE Encoded(LowBytes(value.mag, 2))

\* A blob encoder whose prefix counts itself short by one.
encodeDataBlob_lengthPlusOne(data) ==
    IF encodeWord16(Num(Len(data) + 1)).ok
    THEN Encoded(encodeWord16(Num(Len(data) + 1)).bytes \o data)
    ELSE encodeWord16(Num(Len(data) + 1))

\* encodeDataBlob: the 16-bit length, then the bytes.
encodeDataBlob(data) ==
    LET length == encodeWord16(Num(Len(data)))
    IN  IF length.ok THEN Encoded(length.bytes \o data) ELSE length

-----------------------------------------------------------------------------
(* Path encoder: src/src/serialization.ts                                  *)

\* A path is the sequence of the components between the slashes.  A component
\* is [num, hard]: num is what parseInt reads (NaN when nothing numeric leads
\* the component) and hard says whether the component ends in the marker '.
NaN == -1
IsNumber(element) == element.num # NaN

\* splitPath keeping a zero for every component that does not parse.
splitPath_zeroForNaN(path) ==
    [i \in 1..Len(path) |-> IF IsNumber(path[i]) THEN path[i] ELSE [num |-> 0, hard |-> FALSE]]

\* splitPath: the components that parse, in order; number += 0x80000000 is
\* kept as the flag hard, the sum being formed where the value is written.
splitPath(path) == SelectSeq(path, IsNumber)

\* A writer that leaves the hardening bit out.
writeUInt32BE_unhardened(element) == BE(element.num, 4)

\* Buffer.writeUInt32BE(number): big-endian, 0x80000000 added when hardened.
writeUInt32BE(element) ==
    LET b == BE(element.num, 4)
    IN  IF element.hard THEN << b[1] + 128, b[2], b[3], b[4] >> ELSE b

RECURSIVE writeAll(_)
writeAll(paths) ==
    IF paths = << >> THEN << >>
    ELSE writeUInt32BE(Head(paths)) \o writeAll(Tail(paths))

\* The pathBuffer of serializeTransactionPayloadsWithDerivationPath.
pathBuffer(path) ==
    LET paths == splitPath(path)
    IN  << Len(paths) % 256 >> \o writeAll(paths)

-----------------------------------------------------------------------------
(* Frame splitter: src/src/serialization.ts                                *)

\* A chunk size one byte under the limit.
chunkSizeAt_oneUnder(offset, length) ==
    IF offset + (MAX_CHUNK_SIZE - 1) > length THEN length - offset ELSE MAX_CHUNK_SIZE - 1

chunkSizeAt(offset, length) ==
    IF offset + MAX_CHUNK_SIZE > length THEN length - offset ELSE MAX_CHUNK_SIZE

\* The loop of serializeTransactionPayloads, from the given offset on.
RECURSIVE payloadsFrom(_, _)
payloadsFrom(rawTx, offset) ==
    IF offset = Len(rawTx) THEN << >>
    ELSE LET chunkSize == chunkSizeAt(offset, Len(rawTx))
         IN  << subarray(rawTx, offset, offset + chunkSize) >>
                 \o payloadsFrom(rawTx, offset + chunkSize)

serializeTransactionPayloads(rawTx) == payloadsFrom(rawTx, 0)

\* A loop that puts the path encoding in front of every frame.
RECURSIVE payloadsWithPathFrom_everyFrame(_, _, _)
payloadsWithPathFrom_everyFrame(pathBuf, rawTx, offset) ==
    IF offset = Len(rawTx) THEN << >>
    ELSE << pathBuf \o subarray(rawTx, offset, offset + chunkSizeAt(offset, Len(rawTx))) >>
             \o payloadsWithPathFrom_everyFrame(pathBuf, rawTx,
                                                offset + chunkSizeAt(offset, Len(rawTx)))

\* The loop of serializeTransactionPayloadsWithDerivationPath: the first
\* buffer is allocated with pathBuffer.length + chunkSize bytes.
RECURSIVE payloadsWithPathFrom(_, _, _)
payloadsWithPathFrom(pathBuf, rawTx, offset) ==
    IF offset = Len(rawTx) THEN << >>
    ELSE LET first == offset = 0
             chunkSize == chunkSizeAt(offset, Len(rawTx))
             chunk == subarray(rawTx, offset, offset + chunkSize)
             buffer == IF first THEN pathBuf \o chunk ELSE chunk
         IN  << buffer >> \o payloadsWithPathFrom(pathBuf, rawTx, offset + chunkSize)

\* A splitter that counts the path encoding inside the limit of the first
\* frame but still moves on by a full frame.
serializeTransactionPayloadsWithDerivationPath_clipFirst(path, rawTx) ==
    LET frames == payloadsFrom(rawTx, 0)
        room == MAX_CHUNK_SIZE - Len(pathBuffer(path))
    IN  IF frames = << >> THEN << >>
        ELSE << pathBuffer(path) \o subarray(Head(frames), 0, room) >> \o Tail(frames)

serializeTransactionPayloadsWithDerivationPath(path, rawTx) ==
    payloadsWithPathFrom(pathBuffer(path), rawTx, 0)

-----------------------------------------------------------------------------
(* Canonical serializer: src/src/utils.ts                                  *)

\* The first failure of a list of encodings, or their concatenation.
encodeAll(parts) ==
    IF \E i \in 1..Len(parts) : ~parts[i].ok
    THEN parts[CHOOSE i \in 1..Len(parts) :
                   ~parts[i].ok /\ \A j \in 1..(i - 1) : parts[j].ok]
    ELSE Encoded(concat([i \in 1..Len(parts) |-> parts[i].bytes]))

\* AccountAddress.toBuffer: the 32 bytes of an account address.
AccountAddress_toBuffer(address) == Bytes(32, address)

\* A header whose size field leaves the kind tag out.
serializeAccountTransactionHeader_withoutKind(accountTransaction, payloadSize) ==
    encodeAll(<< Encoded(AccountAddress_toBuffer(accountTransaction.sender)),
                 encodeWord64(accountTransaction.nonce),
                 encodeWord64(accountTransaction.energyAmount),
                 encodeWord32(Num(payloadSize - 1)),
                 encodeWord64(accountTransaction.expiry) >>)

serializeAccountTransactionHeader(accountTransaction, payloadSize) ==
    encodeAll(<< Encoded(AccountAddress_toBuffer(accountTransaction.sender)),
                 encodeWord64(accountTransaction.nonce),
                 encodeWord64(accountTransaction.energyAmount),
                 encodeWord32(Num(payloadSize)),
                 encodeWord64(accountTransaction.expiry) >>)

serializedType(txn) == << txn.transactionKind >>


\* The bytes the transaction handler of the SDK yields for a payload
\* (accountTransactionHandler.serialize).  Transfer, configure-delegation,
\* deploy-module, init- and update-contract payloads are opaque here: the
\* payload carries its serialization (body).  Configure-baker (kind 25) and
\* update-credentials (kind 20) follow the layouts the slicers below rely on.
BakerFields == << "stake", "restakeEarnings", "openForDelegation", "keys",
                  "metadataUrl", "transactionFeeCommission",
                  "bakingRewardCommission", "finalizationRewardCommission" >>

bakerFieldBytes(payload, f) ==
    CASE f = "stake" -> Bytes(STAKING_PAYLOAD_LENGTH, payload.seed)
      [] f = "restakeEarnings" -> << 1 >>
      [] f = "openForDelegation" -> << 2 >>
      [] f = "keys" -> Bytes(KEYS_PAYLOAD_LENGTH, payload.seed + 1)
      [] f = "metadataUrl" -> encodeDataBlob(payload.metadataUrl).bytes
      [] f = "transactionFeeCommission" -> BE(payload.seed + 2, 4)
      [] f = "bakingRewardCommission" -> BE(payload.seed + 3, 4)
      [] f = "finalizationRewardCommission" -> BE(payload.seed + 4, 4)

RECURSIVE bakerBitmap(_, _)
bakerBitmap(payload, k) ==
    IF k > Len(BakerFields) THEN 0
    ELSE (IF BakerFields[k] \in payload.defined THEN 2 ^ (k - 1) ELSE 0)
             + bakerBitmap(payload, k + 1)

RECURSIVE bakerBody(_, _)
bakerBody(payload, k) ==
    IF k > Len(BakerFields) THEN << >>
    ELSE (IF BakerFields[k] \in payload.defined
          THEN bakerFieldBytes(payload, BakerFields[k]) ELSE << >>)
             \o bakerBody(payload, k + 1)

serializeConfigureBakerPayload(payload) ==
    BE(bakerBitmap(payload, 1), BITMAP_LENGTH) \o bakerBody(payload, 1)

RECURSIVE verifyKeysBytes(_, _, _)
verifyKeysBytes(cred, k, n) ==
    IF k > n THEN << >>
    ELSE << k - 1, 0 >> \o Bytes(KEY_LENGTH, cred.seed + k) \o verifyKeysBytes(cred, k + 1, n)

RECURSIVE arDataBytes(_, _, _)
arDataBytes(cred, k, n) ==
    IF k > n THEN << >>
    ELSE BE(k, 4) \o Bytes(ID_CRED_PUB_SHARE_LENGTH, cred.seed + 10 + k)
             \o arDataBytes(cred, k + 1, n)

RECURSIVE attributesBytes(_)
attributesBytes(attributes) ==
    IF attributes = << >> THEN << >>
    ELSE << Head(attributes).tag, Len(Head(attributes).value) % 256 >>
             \o Head(attributes).value \o attributesBytes(Tail(attributes))

\* index, then the credential deployment information of one new credential.
credentialBytes(cred) ==
    << cred.index >>
        \o << cred.keys >> \o verifyKeysBytes(cred, 1, cred.keys)
        \o << 1 >> \o Bytes(REG_ID_LENGTH, cred.seed + 20) \o BE(cred.seed, IP_IDENTITY_LENGTH)
        \o << 1 >> \o BE(cred.ars, AR_DATA_LENGTH) \o arDataBytes(cred, 1, cred.ars)
        \o Bytes(VALID_TO_LENGTH, cred.seed + 30) \o Bytes(CREATED_AT_LENGTH, cred.seed + 40)
        \o BE(Len(cred.attributes), ATTRIBUTES_LENGTH) \o attributesBytes(cred.attributes)
        \o BE(Len(cred.proofs), PROOF_LENGTH_LENGTH) \o cred.proofs

RECURSIVE credentialsBytes(_)
credentialsBytes(creds) ==
    IF creds = << >> THEN << >>
    ELSE credentialBytes(Head(creds)) \o credentialsBytes(Tail(creds))

RECURSIVE credentialIdsBytes(_)
credentialIdsBytes(ids) ==
    IF ids = << >> THEN << >>
    ELSE Bytes(CREDENTIAL_ID_LENGTH, Head(ids)) \o credentialIdsBytes(Tail(ids))

serializeUpdateCredentialsPayload(payload) ==
    << Len(payload.newCredentials) >> \o credentialsBytes(payload.newCredentials)
        \o << Len(payload.removeCredentialIds) >> \o credentialIdsBytes(payload.removeCredentialIds)
        \o << payload.threshold >>

accountTransactionHandler_serialize(txn) ==
    CASE txn.transactionKind = 25 -> serializeConfigureBakerPayload(txn.payload)
      [] txn.transactionKind = 20 -> serializeUpdateCredentialsPayload(txn.payload)
      [] OTHER -> txn.payload.body

\* serializeAccountTransaction: header, kind tag, payload; the size written in
\* the header is the payload length plus one.
serializeAccountTransaction(accountTransaction) ==
    LET serializedPayload == accountTransactionHandler_serialize(accountTransaction)
        serializedHeader ==
            serializeAccountTransactionHeader(accountTransaction, Len(serializedPayload) + 1)
    IN  encodeAll(<< serializedHeader,
                     Encoded(serializedType(accountTransaction)),
                     Encoded(serializedPayload) >>)


-----------------------------------------------------------------------------
(* Structured serializers: src/src/serialization.ts                        *)

Failed(e) == [ok |-> FALSE, err |-> e]

serializeTransaction(txn, path) ==
    LET txSerialized == serializeAccountTransaction(txn)
    IN  IF ~txSerialized.ok THEN Failed(txSerialized.err)
        ELSE [ok |-> TRUE, err |-> "none",
              payloads |-> serializeTransactionPayloadsWithDerivationPath(path, txSerialized.bytes)]

serializeSimpleTransferWithMemo(txn, path) ==
    LET serializedToAddress == AccountAddress_toBuffer(txn.payload.toAddress)
        serializedAmount == encodeWord64(txn.payload.amount)
        serializedMemo == encodeDataBlob(txn.payload.memo)
        memoLength == subarray(serializedMemo.bytes, 0, 2)
        payloadSize == Len(serializedType(txn)) + Len(serializedMemo.bytes)
                           + Len(serializedAmount.bytes) + Len(serializedToAddress)
        serializedHeader == serializeAccountTransactionHeader(txn, payloadSize)
        thrown == encodeAll(<< serializedAmount, serializedMemo, serializedHeader >>)
        serializedHeaderAddressMemoLength ==
            serializedHeader.bytes \o serializedType(txn) \o serializedToAddress \o memoLength
    IN  IF ~thrown.ok THEN Failed(thrown.err)
        ELSE [ok |-> TRUE, err |-> "none",
              payloadHeaderAddressMemoLength |->
                  serializeTransactionPayloadsWithDerivationPath(path, serializedHeaderAddressMemoLength),
              payloadsMemo |->
                  serializeTransactionPayloads(subarray(serializedMemo.bytes, 2, Len(serializedMemo.bytes))),
              payloadsAmount |-> serializeTransactionPayloads(serializedAmount.bytes)]

\* One schedule item: the 8-byte timestamp, then the 8-byte amount.
scheduleItem(item) == encodeAll(<< encodeWord64(item.timestamp), encodeWord64(item.amount) >>)

scheduleItems(schedule) == [i \in 1..Len(schedule) |-> scheduleItem(schedule[i])]

\* A chunk loop that advances one pair too far after every frame.
RECURSIVE scheduleChunksFrom_skipPair(_, _, _, _)
scheduleChunksFrom_skipPair(serializedSchedule, length, i, remainingPairs) ==
    IF ~(i < length) THEN << >>
    ELSE serializeTransactionPayloads(
             subarray(serializedSchedule, i * 16, (i + Min(remainingPairs, MAX_SCHEDULE_CHUNK_SIZE)) * 16))
         \o scheduleChunksFrom_skipPair(serializedSchedule, length,
                                        i + MAX_SCHEDULE_CHUNK_SIZE + 1,
                                        length - MAX_SCHEDULE_CHUNK_SIZE)

\* The loop that cuts the serialized schedule into frames of at most
\* MAX_SCHEDULE_CHUNK_SIZE pairs; remainingPairs is recomputed from the
\* schedule length after every frame.
RECURSIVE scheduleChunksFrom(_, _, _, _)
scheduleChunksFrom(serializedSchedule, length, i, remainingPairs) ==
    IF ~(i < length) THEN << >>
    ELSE LET offset == IF remainingPairs > MAX_SCHEDULE_CHUNK_SIZE
                       THEN MAX_SCHEDULE_CHUNK_SIZE ELSE remainingPairs
             scheduleChunk ==
                 serializeTransactionPayloads(subarray(serializedSchedule, i * 16, (i + offset) * 16))
         IN  scheduleChunk \o scheduleChunksFrom(serializedSchedule, length,
                                                 i + MAX_SCHEDULE_CHUNK_SIZE,
                                                 length - MAX_SCHEDULE_CHUNK_SIZE)

serializeTransferWithSchedule(txn, path) ==
    LET toAddressBuffer == AccountAddress_toBuffer(txn.payload.toAddress)
        scheduleLength == encodeInt8(Num(Len(txn.payload.schedule)))
        scheduleBuffer == encodeAll(scheduleItems(txn.payload.schedule))
        serializedSchedule == scheduleBuffer.bytes
        payloadSize == Len(serializedType(txn)) + Len(scheduleLength.bytes)
                           + Len(serializedSchedule) + Len(toAddressBuffer)
        serializedHeader == serializeAccountTransactionHeader(txn, payloadSize)
        thrown == encodeAll(<< scheduleLength, scheduleBuffer, serializedHeader >>)
        serializedHeaderAddressScheduleLength ==
            serializedHeader.bytes \o serializedType(txn) \o toAddressBuffer \o scheduleLength.bytes
    IN  IF ~thrown.ok THEN Failed(thrown.err)
        ELSE [ok |-> TRUE, err |-> "none",
              payloadHeaderAddressScheduleLength |->
                  serializeTransactionPayloadsWithDerivationPath(path, serializedHeaderAddressScheduleLength),
              payloadsSchedule |->
                  scheduleChunksFrom(serializedSchedule, Len(txn.payload.schedule), 0,
                                     Len(txn.payload.schedule))]

serializeTransferWithScheduleAndMemo(txn, path) ==
    LET toAddressBuffer == AccountAddress_toBuffer(txn.payload.toAddress)
        scheduleLength == encodeInt8(Num(Len(txn.payload.schedule)))
        scheduleBufferArray == encodeAll(scheduleItems(txn.payload.schedule))
        serializedSchedule == scheduleBufferArray.bytes
        serializedMemo == encodeDataBlob(txn.payload.memo)
        payloadSize == Len(serializedType(txn)) + Len(scheduleLength.bytes)
                           + Len(serializedSchedule) + Len(toAddressBuffer)
                           + Len(serializedMemo.bytes)
        serializedHeader == serializeAccountTransactionHeader(txn, payloadSize)
        thrown == encodeAll(<< scheduleLength, scheduleBufferArray, serializedMemo, serializedHeader >>)
        serializedHeaderAddressScheduleLengthAndMemoLength ==
            serializedHeader.bytes \o serializedType(txn) \o toAddressBuffer
                \o scheduleLength.bytes \o subarray(serializedMemo.bytes, 0, 2)
    IN  IF ~thrown.ok THEN Failed(thrown.err)
        ELSE [ok |-> TRUE, err |-> "none",
              payloadHeaderAddressScheduleLengthAndMemoLength |->
                  serializeTransactionPayloadsWithDerivationPath(
                      path, serializedHeaderAddressScheduleLengthAndMemoLength),
              payloadMemo |->
                  serializeTransactionPayloads(subarray(serializedMemo.bytes, 2, Len(serializedMemo.bytes))),
              payloadsSchedule |->
                  scheduleChunksFrom(serializedSchedule, Len(txn.payload.schedule), 0,
                                     Len(txn.payload.schedule))]

serializeRegisterData(txn, path) ==
    LET serializedData == encodeDataBlob(txn.payload.data)
        payloadSize == Len(serializedType(txn)) + Len(serializedData.bytes)
        serializedHeader == serializeAccountTransactionHeader(txn, payloadSize)
        thrown == encodeAll(<< serializedData, serializedHeader >>)
        serializedHeaderAndKind ==
            serializedHeader.bytes \o serializedType(txn) \o subarray(serializedData.bytes, 0, 2)
    IN  IF ~thrown.ok THEN Failed(thrown.err)
        ELSE [ok |-> TRUE, err |-> "none",
              payloadHeader |->
                  serializeTransactionPayloadsWithDerivationPath(path, serializedHeaderAndKind),
              payloadsData |->
                  serializeTransactionPayloads(subarray(serializedData.bytes, 2, Len(serializedData.bytes)))]

serializeTransferToPublic(txn, path) ==
    LET remainingAmount == txn.payload.remainingAmount
        transferAmount == encodeWord64(txn.payload.transferAmount)
        index == encodeWord64(txn.payload.index)
        proofs == txn.payload.proofs
        proofsLength == encodeWord16(Num(Len(proofs)))
        payloadSize == Len(remainingAmount) + Len(transferAmount.bytes) + Len(index.bytes)
                           + Len(proofsLength.bytes) + Len(proofs) + Len(serializedType(txn))
        serializedHeader == serializeAccountTransactionHeader(txn, payloadSize)
        thrown == encodeAll(<< transferAmount, index, proofsLength, serializedHeader >>)
        serializedHeaderAndKind == serializedHeader.bytes \o serializedType(txn)
        serializedAmountAndProofsLength ==
            remainingAmount \o transferAmount.bytes \o index.bytes \o proofsLength.bytes
    IN  IF ~thrown.ok THEN Failed(thrown.err)
        ELSE [ok |-> TRUE, err |-> "none",
              payloadHeader |->
                  serializeTransactionPayloadsWithDerivationPath(path, serializedHeaderAndKind),
              payloadsAmountAndProofsLength |->
                  serializeTransactionPayloads(serializedAmountAndProofsLength),
              payloadsProofs |-> serializeTransactionPayloads(proofs)]

\* Buffer.readUInt16BE(0) / readUInt8(0) / readUInt32BE(0) of a slice that has
\* the bytes to read.
readUIntBE(buf, w) ==
    IF w = 1 THEN buf[1]
    ELSE IF w = 2 THEN buf[1] * 256 + buf[2]
    ELSE ((buf[1] % 128) * 256 + buf[2]) * 65536 + buf[3] * 256 + buf[4]

NoBakerFields ==
    [stake |-> << >>, restakeEarnings |-> << >>, openForDelegation |-> << >>, keys |-> << >>,
     metadataUrl |-> << >>, url |-> << >>, transactionFeeCommission |-> << >>,
     bakingRewardCommission |-> << >>, finalizationRewardCommission |-> << >>]

\* A slicer that takes a field where it stands but does not move on.
sliceBakerField_keepOffset(txSerialized, own, b, f, width) ==
    IF f \in own
    THEN [b EXCEPT !.fields[f] = subarray(txSerialized, b.offset, b.offset + width)]
    ELSE b

\* if (txn.payload.hasOwnProperty(f)) { f = txSerialized.subarray(offset,
\* offset + width); offset += width; }   b holds the slices taken so far and
\* the running offset.
sliceBakerField(txSerialized, own, b, f, width) ==
    IF f \in own
    THEN [b EXCEPT !.fields[f] = subarray(txSerialized, b.offset, b.offset + width),
                   !.offset = @ + width]
    ELSE b

\* The metadata URL: its 2 length bytes, then as many bytes as they say;
\* readUInt16BE of a slice shorter than 2 bytes raises a RangeError.
sliceBakerUrl(txSerialized, own, b) ==
    LET metadataUrl == subarray(txSerialized, b.offset, b.offset + METADATA_URL_LENGTH)
        o == b.offset + METADATA_URL_LENGTH
    IN  IF "metadataUrl" \notin own THEN b
        ELSE IF Len(metadataUrl) < METADATA_URL_LENGTH THEN [b EXCEPT !.ok = FALSE]
        ELSE [b EXCEPT !.fields.metadataUrl = metadataUrl,
                       !.fields.url = subarray(txSerialized, o, o + readUIntBE(metadataUrl, 2)),
                       !.offset = o + readUIntBE(metadataUrl, 2)]

\* Stage payloads whose first batch takes all the key bytes.
configureBakerPayloads_keysInFirstBatch(payloadHeaderKindAndBitmap, b) ==
    IF ~b.ok THEN Failed("RangeError")
    ELSE [ok |-> TRUE, err |-> "none",
          payloadHeaderKindAndBitmap |-> payloadHeaderKindAndBitmap[1],
          payloadFirstBatch |->
              b.fields.stake \o b.fields.restakeEarnings \o b.fields.openForDelegation
                  \o b.fields.keys,
          payloadAggregationKeys |-> << >>,
          payloadUrlLength |-> b.fields.metadataUrl,
          payloadURL |-> b.fields.url,
          payloadCommissionFee |->
              b.fields.transactionFeeCommission \o b.fields.bakingRewardCommission
                  \o b.fields.finalizationRewardCommission]

configureBakerPayloads(payloadHeaderKindAndBitmap, b) ==
    IF ~b.ok THEN Failed("RangeError")
    ELSE [ok |-> TRUE, err |-> "none",
          payloadHeaderKindAndBitmap |-> payloadHeaderKindAndBitmap[1],
          payloadFirstBatch |->
              b.fields.stake \o b.fields.restakeEarnings \o b.fields.openForDelegation
                  \o subarray(b.fields.keys, 0, KEYS_ELECTION_AND_SIGNATURE_LENGTH),
          payloadAggregationKeys |->
              subarray(b.fields.keys, KEYS_ELECTION_AND_SIGNATURE_LENGTH, Len(b.fields.keys)),
          payloadUrlLength |-> b.fields.metadataUrl,
          payloadURL |-> b.fields.url,
          payloadCommissionFee |->
              b.fields.transactionFeeCommission \o b.fields.bakingRewardCommission
                  \o b.fields.finalizationRewardCommission]

sliceConfigureBaker(txSerialized, own, path) ==
    LET o0 == HEADER_LENGTH + TRANSACTION_KIND_LENGTH + BITMAP_LENGTH
        b0 == [ok |-> TRUE, offset |-> o0, fields |-> NoBakerFields]
        b1 == sliceBakerField(txSerialized, own, b0, "stake", STAKING_PAYLOAD_LENGTH)
        b2 == sliceBakerField(txSerialized, own, b1, "restakeEarnings",
                              RESTAKE_EARNINGS_PAYLOAD_LENGTH)
        b3 == sliceBakerField(txSerialized, own, b2, "openForDelegation",
                              OPEN_FOR_DELEGATION_PAYLOAD_LENGTH)
        b4 == sliceBakerField(txSerialized, own, b3, "keys", KEYS_PAYLOAD_LENGTH)
        b5 == sliceBakerUrl(txSerialized, own, b4)
        b6 == sliceBakerField(txSerialized, own, b5, "transactionFeeCommission",
                              TRANSACTION_FEE_COMMISSION_LENGTH)
        b7 == sliceBakerField(txSerialized, own, b6, "bakingRewardCommission",
                              BAKING_REWARD_COMMISSION_LENGTH)
        b8 == sliceBakerField(txSerialized, own, b7, "finalizationRewardCommission",
                              FINALIZATION_REWARD_COMMISSION_LENGTH)
    IN  configureBakerPayloads(
            serializeTransactionPayloadsWithDerivationPath(path, subarray(txSerialized, 0, o0)),
            b8)

serializeConfigureBaker(txn, path) ==
    LET tx == serializeAccountTransaction(txn)
    IN  IF ~tx.ok THEN Failed(tx.err)
        ELSE sliceConfigureBaker(tx.bytes, txn.payload.own, path)


-----------------------------------------------------------------------------
(* Update-credentials slicer: src/src/serialization.ts                     *)

\* One pass of the inner loop over the revealed attributes of a credential:
\* tag, value length and value are read at the running offset.  a holds what
\* the loop has collected and the offset; readUInt8 of an empty value-length
\* slice raises a RangeError (ok becomes FALSE).
sliceAttribute(txSerialized, a) ==
    LET t == subarray(txSerialized, a.offset, a.offset + TAG_LENGTH)
        vl == subarray(txSerialized, a.offset + TAG_LENGTH, a.offset + TAG_LENGTH + VALUE_LENGTH)
        o == a.offset + TAG_LENGTH + VALUE_LENGTH
    IN  IF Len(vl) < 1 THEN [a EXCEPT !.ok = FALSE]
        ELSE [ok |-> TRUE, tag |-> Append(a.tag, t), valueLength |-> Append(a.valueLength, vl),
              value |-> Append(a.value, subarray(txSerialized, o, o + readUIntBE(vl, 1))),
              offset |-> o + readUIntBE(vl, 1)]

\* for (let j = 0; j < attributesLength[i].readUInt16BE(0); j++)
RECURSIVE sliceAttributes(_, _, _, _)
sliceAttributes(txSerialized, a, j, n) ==
    IF ~(j < n) \/ ~a.ok THEN a
    ELSE sliceAttributes(txSerialized, sliceAttribute(txSerialized, a), j + 1, n)

NoAttributes(offset) ==
    [ok |-> TRUE, tag |-> << >>, valueLength |-> << >>, value |-> << >>, offset |-> offset]

NoCredentials ==
    [ok |-> TRUE, credentialIndex |-> << >>, numberOfVerificationKeys |-> << >>,
     keyIndexAndSchemeAndVerificationKey |-> << >>, thresholdAndRegIdAndIPIdentity |-> << >>,
     encIdCredPubShareAndKey |-> << >>, validToAndCreatedAtAndAttributesLength |-> << >>,
     attributesLength |-> << >>, tag |-> << >>, valueLength |-> << >>, value |-> << >>,
     proofLength |-> << >>, proofs |-> << >>, offset |-> 0]

\* The fixed-width sub-fields of credential i, from its index to its dates;
\* attributesLength[i] is the last ATTRIBUTES_LENGTH bytes of the dates slice.
sliceCredentialFixed(txSerialized, c) ==
    LET o1 == c.offset + INDEX_LENGTH
        o2 == o1 + INDEX_LENGTH
        o3 == o2 + 2 * ONE_OCTET_LENGTH + KEY_LENGTH
        o4 == o3 + 2 * ONE_OCTET_LENGTH + REG_ID_LENGTH + IP_IDENTITY_LENGTH + AR_DATA_LENGTH
        o5 == o4 + 4 * ONE_OCTET_LENGTH + ID_CRED_PUB_SHARE_LENGTH
        o6 == o5 + ATTRIBUTES_LENGTH + VALID_TO_LENGTH + CREATED_AT_LENGTH
        dates == subarray(txSerialized, o5, o6)
    IN  [c EXCEPT
           !.credentialIndex = Append(@, subarray(txSerialized, c.offset, o1)),
           !.numberOfVerificationKeys = Append(@, subarray(txSerialized, o1, o2)),
           !.keyIndexAndSchemeAndVerificationKey = Append(@, subarray(txSerialized, o2, o3)),
           !.thresholdAndRegIdAndIPIdentity = Append(@, subarray(txSerialized, o3, o4)),
           !.encIdCredPubShareAndKey = Append(@, subarray(txSerialized, o4, o5)),
           !.validToAndCreatedAtAndAttributesLength = Append(@, dates),
           !.attributesLength =
               Append(@, subarray(dates, Max(Len(dates) - ATTRIBUTES_LENGTH, 0), Len(dates))),
           !.offset = o6]

\* The revealed attributes of credential i; readUInt16BE of a short
\* attributesLength[i] raises a RangeError.
sliceCredentialAttributes(txSerialized, c) ==
    LET attrLen == c.attributesLength[Len(c.attributesLength)]
        a == sliceAttributes(txSerialized, NoAttributes(c.offset), 0, readUIntBE(attrLen, 2))
    IN  IF Len(attrLen) < ATTRIBUTES_LENGTH THEN [c EXCEPT !.ok = FALSE]
        ELSE [c EXCEPT !.ok = a.ok, !.tag = Append(@, a.tag),
                       !.valueLength = Append(@, a.valueLength),
                       !.value = Append(@, a.value), !.offset = a.offset]

\* The proofs of credential i, their length read from the 4 bytes before them.
sliceCredentialProofs(txSerialized, c) ==
    LET o7 == c.offset + PROOF_LENGTH_LENGTH
        pl == subarray(txSerialized, c.offset, o7)
    IN  IF Len(pl) < PROOF_LENGTH_LENGTH THEN [c EXCEPT !.ok = FALSE]
        ELSE [c EXCEPT !.proofLength = Append(@, pl),
                       !.proofs = Append(@, subarray(txSerialized, o7, o7 + readUIntBE(pl, 4))),
                       !.offset = o7 + readUIntBE(pl, 4)]

\* The outer loop over txn.payload.newCredentials: credential i is cut at
\* fixed widths, except for its attributes and its proofs, whose lengths are
\* read from the bytes.  c holds the lists collected so far and the offset.
RECURSIVE sliceCredentials(_, _, _, _)
sliceCredentials(txSerialized, c, i, n) ==
    IF ~(i < n) \/ ~c.ok THEN c
    ELSE sliceCredentials(txSerialized,
             sliceCredentialProofs(txSerialized,
                 sliceCredentialAttributes(txSerialized,
                     sliceCredentialFixed(txSerialized, c))),
             i + 1, n)

RECURSIVE sliceCredentialIds(_, _, _, _)
sliceCredentialIds(txSerialized, offset, i, n) ==
    IF ~(i < n) THEN << >>
    ELSE << subarray(txSerialized, offset, offset + CREDENTIAL_ID_LENGTH) >>
             \o sliceCredentialIds(txSerialized, offset + CREDENTIAL_ID_LENGTH, i + 1, n)

\* What follows the credentials: the count of credential ids to remove, the
\* ids and the threshold; readUInt8 of an empty count raises a RangeError.
sliceCredentialIdsAndThreshold(txSerialized, c, payloadHeaderKindAndIndexLength) ==
    LET credentialIdCount == subarray(txSerialized, c.offset, c.offset + ONE_OCTET_LENGTH)
        o1 == c.offset + ONE_OCTET_LENGTH
    IN  IF ~c.ok \/ Len(credentialIdCount) < ONE_OCTET_LENGTH THEN Failed("RangeError")
        ELSE [ok |-> TRUE, err |-> "none",
              payloadHeaderKindAndIndexLength |-> payloadHeaderKindAndIndexLength,
              credentialIndex |-> c.credentialIndex,
              numberOfVerificationKeys |-> c.numberOfVerificationKeys,
              keyIndexAndSchemeAndVerificationKey |-> c.keyIndexAndSchemeAndVerificationKey,
              thresholdAndRegIdAndIPIdentity |-> c.thresholdAndRegIdAndIPIdentity,
              encIdCredPubShareAndKey |-> c.encIdCredPubShareAndKey,
              validToAndCreatedAtAndAttributesLength |-> c.validToAndCreatedAtAndAttributesLength,
              attributesLength |-> c.attributesLength,
              tag |-> c.tag, valueLength |-> c.valueLength, value |-> c.value,
              proofLength |-> c.proofLength, proofs |-> c.proofs,
              credentialIdCount |-> credentialIdCount,
              credentialIds |->
                  sliceCredentialIds(txSerialized, o1, 0, readUIntBE(credentialIdCount, 1)),
              threshold |->
                  subarray(txSerialized,
                           o1 + readUIntBE(credentialIdCount, 1) * CREDENTIAL_ID_LENGTH,
                           o1 + readUIntBE(credentialIdCount, 1) * CREDENTIAL_ID_LENGTH
                               + ONE_OCTET_LENGTH)]

sliceUpdateCredentials(txSerialized, path, n) ==
    sliceCredentialIdsAndThreshold(
        txSerialized,
        sliceCredentials(txSerialized,
                         [NoCredentials EXCEPT
                            !.offset = HEADER_LENGTH + TRANSACTION_KIND_LENGTH + INDEX_LENGTH],
                         0, n),
        serializeTransactionPayloadsWithDerivationPath(
            path,
            subarray(txSerialized, 0, HEADER_LENGTH + TRANSACTION_KIND_LENGTH + INDEX_LENGTH)))

serializeUpdateCredentials(txn, path) ==
    LET tx == serializeAccountTransaction(txn)
    IN  IF ~tx.ok THEN Failed(tx.err)
        ELSE sliceUpdateCredentials(tx.bytes, path, Len(txn.payload.newCredentials))


-----------------------------------------------------------------------------
(* Serializers of RevB that src/ does not hold: the class of                *)
(* src/unnamed/part_000 imports them from a serialization module of its own *)
(* revision.  They are modelled from the specification's description of     *)
(* the structured kinds: the named sub-fields, cut at the same widths as    *)
(* the update-credentials slicer cuts a credential.                        *)

\* payloadsHeaderAndVersion carries the path prefix, the header, the kind and
\* the 8 bytes of module version and source length; payloadSource the rest.
serializeDeployModule_B(txn, path) ==
    LET tx == serializeAccountTransaction(txn)
        o == HEADER_LENGTH + TRANSACTION_KIND_LENGTH + 8
    IN  IF ~tx.ok THEN Failed(tx.err)
        ELSE [ok |-> TRUE, err |-> "none",
              payloadsHeaderAndVersion |->
                  serializeTransactionPayloadsWithDerivationPath(path, subarray(tx.bytes, 0, o)),
              payloadSource |-> subarray(tx.bytes, o, Len(tx.bytes))]

serializeCredentialDeployment(txn, path) ==
    LET c == sliceCredentials(credentialBytes(txn.cdi), NoCredentials, 0, 1)
    IN  IF ~c.ok THEN Failed("RangeError")
        ELSE [ok |-> TRUE, err |-> "none",
              payloadDerivationPath |-> pathBuffer(path),
              numberOfVerificationKeys |-> c.numberOfVerificationKeys[1],
              keyIndexAndSchemeAndVerificationKey |-> c.keyIndexAndSchemeAndVerificationKey[1],
              thresholdAndRegIdAndIPIdentity |-> c.thresholdAndRegIdAndIPIdentity[1],
              encIdCredPubShareAndKey |-> c.encIdCredPubShareAndKey[1],
              validToAndCreatedAtAndAttributesLength |->
                  c.validToAndCreatedAtAndAttributesLength[1],
              tag |-> c.tag[1], valueLength |-> c.valueLength[1], value |-> c.value[1],
              proofLength |-> c.proofLength[1], proofs |-> c.proofs[1]]

RECURSIVE publicInfoKeys(_, _, _)
publicInfoKeys(cred, k, n) ==
    IF k > n THEN << >>
    ELSE << << k - 1, 0 >> \o Bytes(KEY_LENGTH, cred.seed + k) >> \o publicInfoKeys(cred, k + 1, n)

serializePublicInfoForIp(txn, path) ==
    [ok |-> TRUE, err |-> "none",
     payloadIdCredPubAndRegIdAndKeysLenght |->
         pathBuffer(path) \o Bytes(REG_ID_LENGTH, txn.cdi.seed + 19)
             \o Bytes(REG_ID_LENGTH, txn.cdi.seed + 20) \o << txn.cdi.keys >>,
     payloadKeys |-> publicInfoKeys(txn.cdi, 1, txn.cdi.keys),
     payloadThreshold |-> << 1 >>]

-----------------------------------------------------------------------------
(* The staged dispatcher.  A signing method is a straight-line program of  *)
(* awaited sendToDevice calls; its script lists them in program order.     *)
(* A step of kind "send" is one sendToDevice call: instruction, P1, P2 and *)
(* payload, and whether the method assigns the reply to its variable       *)
(* response.  A step of kind "throw" is an exception the method raises     *)
(* between two sends.                                                       *)

Send(ins, p1, p2, payload, keep) ==
    [t |-> "send", ins |-> ins, p1 |-> p1, p2 |-> p2, data |-> payload, keep |-> keep,
     err |-> "none"]

Throw(e) ==
    [t |-> "throw", ins |-> 0, p1 |-> 0, p2 |-> 0, data |-> << >>, keep |-> FALSE, err |-> e]

\* list[i] of a JavaScript array: undefined past the end, and the transport
\* sends an undefined payload as the empty buffer.
ElementAt(list, i) == IF i < Len(list) THEN list[i + 1] ELSE << >>

Script(steps) == [ok |-> TRUE, err |-> "none", steps |-> steps]
NoScript(e) == [ok |-> FALSE, err |-> e, steps |-> << >>]

\* for (i = 0; i < payloads.length; i++) response = await sendToDevice(
\*     ins, P1_FIRST_CHUNK + i, lastChunk ? P2_LAST : P2_MORE, payloads[i])
\* A streaming loop that takes the frame before the last for the last.
streamingLoop_lastOffByOne(ins, payloads) ==
    [k \in 1..Len(payloads) |->
        Send(ins, P1_FIRST_CHUNK + (k - 1),
             IF k = Len(payloads) - 1 THEN P2_LAST ELSE P2_MORE, payloads[k], TRUE)]

\* A streaming loop whose stage tag starts again at 0 after 255.
streamingLoop_wrap(ins, payloads) ==
    [k \in 1..Len(payloads) |->
        Send(ins, (P1_FIRST_CHUNK + (k - 1)) % 256,
             IF k - 1 = Len(payloads) - 1 THEN P2_LAST ELSE P2_MORE, payloads[k], TRUE)]

streamingLoop(ins, payloads) ==
    [k \in 1..Len(payloads) |->
        Send(ins, P1_FIRST_CHUNK + (k - 1),
             IF k - 1 = Len(payloads) - 1 THEN P2_LAST ELSE P2_MORE, payloads[k], TRUE)]

\* for (const payload of payloads) response = await sendToDevice(ins, p1, p2, payload)
sendEach(ins, p1, p2, payloads, keep) ==
    [k \in 1..Len(payloads) |-> Send(ins, p1, p2, payloads[k], keep)]

signStreaming(ins, txn, path) ==
    LET s == serializeTransaction(txn, path)
    IN  IF ~s.ok THEN NoScript(s.err) ELSE Script(streamingLoop(ins, s.payloads))

signTransfer(r, txn, path) == signStreaming(INS_SIGN_TRANSFER, txn, path)

signConfigureDelegation(r, txn, path) == signStreaming(INS_SIGN_CONFIGURE_DELEGATION, txn, path)

signInitContract(r, txn, path) == signStreaming(INS_SIGN_INIT_CONTRACT, txn, path)

signUpdateContract(r, txn, path) == signStreaming(INS_SIGN_UPDATE_CONTRACT, txn, path)

signDeployModule(r, txn, path) ==
    IF r = RevA THEN signStreaming(INS_SIGN_DEPLOY_MODULE, txn, path)
    ELSE LET s == serializeDeployModule_B(txn, path)
         IN  IF ~s.ok THEN NoScript(s.err)
             ELSE Script(<< Send(INS_SIGN_DEPLOY_MODULE, P1_INITIAL_PACKET, P2_LAST,
                                 ElementAt(s.payloadsHeaderAndVersion, 0), FALSE),
                            Send(INS_SIGN_DEPLOY_MODULE, P1_SOURCE, P2_LAST,
                                 s.payloadSource, TRUE) >>)

signTransferWithMemo(r, txn, path) ==
    LET s == serializeSimpleTransferWithMemo(txn, path)
    IN  IF ~s.ok THEN NoScript(s.err)
        ELSE Script(<< Send(INS_SIGN_TRANSFER_MEMO, P1_INITIAL_WITH_MEMO, NONE,
                            ElementAt(s.payloadHeaderAddressMemoLength, 0), r = RevA),
                       Send(INS_SIGN_TRANSFER_MEMO, P1_MEMO, NONE,
                            ElementAt(s.payloadsMemo, 0), r = RevA),
                       Send(INS_SIGN_TRANSFER_MEMO, P1_AMOUNT, NONE,
                            ElementAt(s.payloadsAmount, 0), TRUE) >>)

signTransferWithSchedule(r, txn, path) ==
    LET s == serializeTransferWithSchedule(txn, path)
    IN  IF ~s.ok THEN NoScript(s.err)
        ELSE Script(<< Send(INS_SIGN_TRANSFER_SCHEDULE, P1_INITIAL_PACKET, NONE,
                            ElementAt(s.payloadHeaderAddressScheduleLength, 0), r = RevA) >>
                    \o sendEach(INS_SIGN_TRANSFER_SCHEDULE, P1_SCHEDULED_TRANSFER_PAIRS, NONE,
                                s.payloadsSchedule, TRUE))

signTransferWithScheduleAndMemo(r, txn, path) ==
    LET s == serializeTransferWithScheduleAndMemo(txn, path)
    IN  IF ~s.ok THEN NoScript(s.err)
        ELSE Script(<< Send(INS_SIGN_TRANSFER_SCHEDULE_AND_MEMO, P1_INITIAL_WITH_MEMO_SCHEDULE, NONE,
                            ElementAt(s.payloadHeaderAddressScheduleLengthAndMemoLength, 0), r = RevA),
                       Send(INS_SIGN_TRANSFER_SCHEDULE_AND_MEMO, P1_MEMO_SCHEDULE, NONE,
                            ElementAt(s.payloadMemo, 0), r = RevA) >>
                    \o sendEach(INS_SIGN_TRANSFER_SCHEDULE_AND_MEMO, P1_SCHEDULED_TRANSFER_PAIRS,
                                NONE, s.payloadsSchedule, TRUE))

\* A method that leaves out the URL stage when there is no URL (and sends it
\* first otherwise).
signConfigureBaker_skipEmpty(r, txn, path) ==
    LET s == serializeConfigureBaker(txn, path)
    IN  IF ~s.ok THEN NoScript(s.err)
        ELSE Script((IF s.payloadURL = << >> THEN << >>
                     ELSE << Send(INS_SIGN_CONFIGURE_BAKER, P1_URL, NONE, s.payloadURL,
                                  r = RevA) >>)
                    \o << Send(INS_SIGN_CONFIGURE_BAKER, P1_INITIAL_PACKET, NONE,
                            s.payloadHeaderKindAndBitmap, r = RevA),
                       Send(INS_SIGN_CONFIGURE_BAKER, P1_FIRST_BATCH, NONE,
                            s.payloadFirstBatch, r = RevA),
                       Send(INS_SIGN_CONFIGURE_BAKER, P1_AGGREGATION_KEY, NONE,
                            s.payloadAggregationKeys, r = RevA),
                       Send(INS_SIGN_CONFIGURE_BAKER, P1_URL_LENGTH, NONE,
                            s.payloadUrlLength, r = RevA),
                       Send(INS_SIGN_CONFIGURE_BAKER, P1_COMMISSION_FEE, NONE,
                            s.payloadCommissionFee, TRUE) >>)

signConfigureBaker(r, txn, path) ==
    LET s == serializeConfigureBaker(txn, path)
    IN  IF ~s.ok THEN NoScript(s.err)
        ELSE Script(<< Send(INS_SIGN_CONFIGURE_BAKER, P1_INITIAL_PACKET, NONE,
                            s.payloadHeaderKindAndBitmap, r = RevA),
                       Send(INS_SIGN_CONFIGURE_BAKER, P1_FIRST_BATCH, NONE,
                            s.payloadFirstBatch, r = RevA),
                       Send(INS_SIGN_CONFIGURE_BAKER, P1_AGGREGATION_KEY, NONE,
                            s.payloadAggregationKeys, r = RevA),
                       Send(INS_SIGN_CONFIGURE_BAKER, P1_URL_LENGTH, NONE,
                            s.payloadUrlLength, r = RevA),
                       Send(INS_SIGN_CONFIGURE_BAKER, P1_URL, NONE, s.payloadURL, r = RevA),
                       Send(INS_SIGN_CONFIGURE_BAKER, P1_COMMISSION_FEE, NONE,
                            s.payloadCommissionFee, TRUE) >>)

signRegisterData(r, txn, path) ==
    LET s == serializeRegisterData(txn, path)
    IN  IF ~s.ok THEN NoScript(s.err)
        ELSE Script(<< Send(INS_SIGN_REGISTER_DATA, P1_INITIAL_PACKET, NONE,
                            ElementAt(s.payloadHeader, 0), r = RevA) >>
                    \o sendEach(INS_SIGN_REGISTER_DATA, P1_DATA, NONE, s.payloadsData, TRUE))

signTransferToPublic(r, txn, path) ==
    LET s == serializeTransferToPublic(txn, path)
    IN  IF ~s.ok THEN NoScript(s.err)
        ELSE Script(<< Send(INS_SIGN_TRANSFER_TO_PUBLIC, P1_INITIAL_PACKET, NONE,
                            ElementAt(s.payloadHeader, 0), r = RevA),
                       Send(INS_SIGN_TRANSFER_TO_PUBLIC, P1_REMAINING_AMOUNT, NONE,
                            ElementAt(s.payloadsAmountAndProofsLength, 0), r = RevA) >>
                    \o sendEach(INS_SIGN_TRANSFER_TO_PUBLIC, P1_PROOF, NONE, s.payloadsProofs, TRUE))


\* An attribute loop that sends the value stage before the tag stage.
RECURSIVE attributeSteps_valueFirst(_, _, _, _, _, _, _, _)
attributeSteps_valueFirst(ins, p2, tag, valueLength, value, j, n, keep) ==
    IF ~(j < n) THEN << >>
    ELSE IF ~(j < Len(tag)) \/ ~(j < Len(valueLength)) THEN << Throw("TypeError") >>
    ELSE << Send(ins, P1_ATTRIBUTE_VALUE, p2, ElementAt(value, j), keep),
            Send(ins, P1_ATTRIBUTE_TAG, p2, tag[j + 1] \o valueLength[j + 1], keep) >>
             \o attributeSteps_valueFirst(ins, p2, tag, valueLength, value, j + 1, n, keep)

\* for (j = 0; j < Object.keys(revealedAttributes).length; j++): the tag and
\* value-length command, then the value command.  Buffer.concat of a missing
\* tag[j] or valueLength[j] raises a TypeError.
RECURSIVE attributeSteps(_, _, _, _, _, _, _, _)
attributeSteps(ins, p2, tag, valueLength, value, j, n, keep) ==
    IF ~(j < n) THEN << >>
    ELSE IF ~(j < Len(tag)) \/ ~(j < Len(valueLength)) THEN << Throw("TypeError") >>
    ELSE << Send(ins, P1_ATTRIBUTE_TAG, p2, tag[j + 1] \o valueLength[j + 1], keep),
            Send(ins, P1_ATTRIBUTE_VALUE, p2, ElementAt(value, j), keep) >>
             \o attributeSteps(ins, p2, tag, valueLength, value, j + 1, n, keep)

\* The commands of one credential, from the number of verification keys to
\* the proofs; f holds the credential's sub-fields.
credentialSteps(ins, p2, f, n, keep) ==
    << Send(ins, P1_VERIFICATION_KEY_LENGTH, p2, f.numberOfVerificationKeys, keep),
       Send(ins, P1_VERIFICATION_KEY, p2, f.keyIndexAndSchemeAndVerificationKey, keep),
       Send(ins, P1_SIGNATURE_THRESHOLD, p2, f.thresholdAndRegIdAndIPIdentity, keep),
       Send(ins, P1_AR_IDENTITY, p2, f.encIdCredPubShareAndKey, keep),
       Send(ins, P1_CREDENTIAL_DATES, p2, f.validToAndCreatedAtAndAttributesLength, keep) >>
        \o attributeSteps(ins, p2, f.tag, f.valueLength, f.value, 0, n, keep)
        \o << Send(ins, P1_LENGTH_OF_PROOFS, p2, f.proofLength, keep) >>
        \o sendEach(ins, P1_PROOFS, p2, serializeTransactionPayloads(f.proofs), keep)

\* A script runs up to its first exception.
RECURSIVE upToThrow(_)
upToThrow(steps) ==
    IF steps = << >> THEN << >>
    ELSE IF Head(steps).t = "throw" THEN << Head(steps) >>
    ELSE << Head(steps) >> \o upToThrow(Tail(steps))

RECURSIVE newCredentialSteps(_, _, _, _)
newCredentialSteps(s, txn, i, keep) ==
    IF ~(i < Len(txn.payload.newCredentials)) THEN << >>
    ELSE LET f == [numberOfVerificationKeys |-> ElementAt(s.numberOfVerificationKeys, i),
                   keyIndexAndSchemeAndVerificationKey |->
                       ElementAt(s.keyIndexAndSchemeAndVerificationKey, i),
                   thresholdAndRegIdAndIPIdentity |-> ElementAt(s.thresholdAndRegIdAndIPIdentity, i),
                   encIdCredPubShareAndKey |-> ElementAt(s.encIdCredPubShareAndKey, i),
                   validToAndCreatedAtAndAttributesLength |->
                       ElementAt(s.validToAndCreatedAtAndAttributesLength, i),
                   tag |-> ElementAt(s.tag, i), valueLength |-> ElementAt(s.valueLength, i),
                   value |-> ElementAt(s.value, i),
                   proofLength |-> ElementAt(s.proofLength, i),
                   proofs |-> ElementAt(s.proofs, i)]
         IN  << Send(INS_SIGN_UPDATE_CREDENTIALS, NONE, P2_CREDENTIAL_CREDENTIAL_INDEX,
                     ElementAt(s.credentialIndex, i), keep) >>
                 \o credentialSteps(INS_SIGN_UPDATE_CREDENTIALS, P2_CREDENTIAL_CREDENTIAL, f,
                                    Len(txn.payload.newCredentials[i + 1].attributes), keep)
                 \o newCredentialSteps(s, txn, i + 1, keep)

signUpdateCredentials(r, txn, path) ==
    LET s == serializeUpdateCredentials(txn, path)
    IN  IF ~s.ok THEN NoScript(s.err)
        ELSE Script(upToThrow(
                 << Send(INS_SIGN_UPDATE_CREDENTIALS, NONE, P2_CREDENTIAL_INITIAL,
                         ElementAt(s.payloadHeaderKindAndIndexLength, 0), r = RevA) >>
                 \o newCredentialSteps(s, txn, 0, r = RevA)
                 \o << Send(INS_SIGN_UPDATE_CREDENTIALS, NONE, P2_CREDENTIAL_ID_COUNT,
                            s.credentialIdCount, r = RevA) >>
                 \o [k \in 1..Len(txn.payload.removeCredentialIds) |->
                        Send(INS_SIGN_UPDATE_CREDENTIALS, NONE, P2_CREDENTIAL_ID,
                             ElementAt(s.credentialIds, k - 1), r = RevA)]
                 \o << Send(INS_SIGN_UPDATE_CREDENTIALS, NONE, P2_THRESHOLD, s.threshold, TRUE) >>))

signPublicInfoForIp(r, txn, path) ==
    LET s == serializePublicInfoForIp(txn, path)
    IN  IF ~s.ok THEN NoScript(s.err)
        ELSE Script(<< Send(INS_SIGN_PUBLIC_INFO_FOR_IP, P1_INITIAL_PACKET, NONE,
                            s.payloadIdCredPubAndRegIdAndKeysLenght, FALSE) >>
                    \o sendEach(INS_SIGN_PUBLIC_INFO_FOR_IP, P1_VERIFICATION_KEY, NONE,
                                s.payloadKeys, FALSE)
                    \o << Send(INS_SIGN_PUBLIC_INFO_FOR_IP, P1_SIGNATURE_THRESHOLD, NONE,
                               s.payloadThreshold, TRUE) >>)

\* Buffer.from(string, "hex"): one byte per pair of hexadecimal digits; a
\* digit left over at the end is dropped.
fromHex(digits) == [i \in 1..(Len(digits) \div 2) |-> 16 * digits[2 * i - 1] + digits[2 * i]]

\* A last stage with the two discriminator bytes exchanged.
newOrExisting_swapped(isNew, addressOrExpiry) ==
    IF isNew
    THEN LET expiry == encodeAll(<< encodeInt8(Num(1)), encodeWord64(addressOrExpiry.expiry) >>)
         IN  IF ~expiry.ok THEN Throw(expiry.err)
             ELSE Send(INS_SIGN_CREDENTIAL_DEPLOYMENT, P1_NEW_OR_EXISTING, NONE, expiry.bytes, TRUE)
    ELSE LET address == encodeAll(<< encodeInt8(Zero),
                                     Encoded(fromHex(addressOrExpiry.address)) >>)
         IN  Send(INS_SIGN_CREDENTIAL_DEPLOYMENT, P1_NEW_OR_EXISTING, NONE, address.bytes, TRUE)

\* The last stage of signCredentialDeployment: its payload is encoded only
\* when the method reaches it, after the replies to all earlier stages.
newOrExisting(isNew, addressOrExpiry) ==
    IF isNew
    THEN LET expiry == encodeAll(<< encodeInt8(Zero), encodeWord64(addressOrExpiry.expiry) >>)
         IN  IF ~expiry.ok THEN Throw(expiry.err)
             ELSE Send(INS_SIGN_CREDENTIAL_DEPLOYMENT, P1_NEW_OR_EXISTING, NONE, expiry.bytes, TRUE)
    ELSE LET address == encodeAll(<< encodeInt8(Num(1)),
                                     Encoded(fromHex(addressOrExpiry.address)) >>)
         IN  Send(INS_SIGN_CREDENTIAL_DEPLOYMENT, P1_NEW_OR_EXISTING, NONE, address.bytes, TRUE)

signCredentialDeployment(r, txn, isNew, addressOrExpiry, path) ==
    LET s == serializeCredentialDeployment(txn, path)
    IN  IF ~s.ok THEN NoScript(s.err)
        ELSE Script(upToThrow(
                 << Send(INS_SIGN_CREDENTIAL_DEPLOYMENT, P1_INITIAL_PACKET, NONE,
                         s.payloadDerivationPath, FALSE) >>
                 \o credentialSteps(INS_SIGN_CREDENTIAL_DEPLOYMENT, NONE, s,
                                    Len(txn.cdi.attributes), FALSE)
                 \o << newOrExisting(isNew, addressOrExpiry) >>))


-----------------------------------------------------------------------------
(* Calls.  A call is one invocation of a signing method on the instance.   *)
(* Its record holds the request, the script of the method for that         *)
(* request, the number of steps completed (idx), the method's variable     *)
(* response, and the history of what the call handed to the transport and  *)
(* what came back.                                                          *)

Undefined == [def |-> FALSE, data |-> << >>]
Defined(data) == [def |-> TRUE, data |-> data]

Pending == [kind |-> "none", err |-> "none", signature |-> << >>]
Signature(hex) == [kind |-> "signature", err |-> "none", signature |-> hex]
UserDeclined == [kind |-> "error", err |-> "User has declined.", signature |-> << >>]
Failure(e) == [kind |-> "error", err |-> e, signature |-> << >>]

SigningMethods(r) ==
    {"signTransfer", "signTransferWithMemo", "signTransferWithSchedule",
     "signTransferWithScheduleAndMemo", "signConfigureDelegation", "signConfigureBaker",
     "signRegisterData", "signTransferToPublic", "signDeployModule", "signInitContract",
     "signUpdateContract", "signUpdateCredentials"}
        \cup (IF r = RevB THEN {"signPublicInfoForIp", "signCredentialDeployment"} ELSE {})

\* A constructor that registers the methods of the first release only.
decorateAppAPIMethods_unregistered(r) ==
    {"getVersion", "getAddress", "verifyAddress", "signTransaction"}

\* The methods the constructor hands to transport.decorateAppAPIMethods.  The
\* transport wraps each of them with its API lock: a wrapped method called
\* while the lock is held is rejected, otherwise it holds the lock until its
\* promise settles.
decorateAppAPIMethods(r) ==
    IF r = RevA THEN {"getVersion", "getAddress", "verifyAddress", "signTransaction"}
    ELSE IF r = RevC THEN {"getVersion", "getAddress", "signTransaction"}
    ELSE {"getAddress", "verifyAddress", "verifyAddressLegacy", "getPublicKey",
          "exportPrivateKey", "signTransfer", "signTransferWithMemo",
          "signTransferWithSchedule", "signTransferWithScheduleAndMemo",
          "signConfigureDelegation", "signConfigureBaker", "signRegisterData",
          "signTransferToPublic", "signDeployModule", "signInitContract",
          "signUpdateContract", "signPublicInfoForIp", "signUpdateCredentials",
          "signCredentialDeployment"}

\* The script of a method for a request.
methodScript(r, req) ==
    CASE req.method = "signTransfer" -> signTransfer(r, req.txn, req.path)
      [] req.method = "signTransferWithMemo" -> signTransferWithMemo(r, req.txn, req.path)
      [] req.method = "signTransferWithSchedule" -> signTransferWithSchedule(r, req.txn, req.path)
      [] req.method = "signTransferWithScheduleAndMemo" ->
             signTransferWithScheduleAndMemo(r, req.txn, req.path)
      [] req.method = "signConfigureDelegation" -> signConfigureDelegation(r, req.txn, req.path)
      [] req.method = "signConfigureBaker" -> signConfigureBaker(r, req.txn, req.path)
      [] req.method = "signRegisterData" -> signRegisterData(r, req.txn, req.path)
      [] req.method = "signTransferToPublic" -> signTransferToPublic(r, req.txn, req.path)
      [] req.method = "signDeployModule" -> signDeployModule(r, req.txn, req.path)
      [] req.method = "signInitContract" -> signInitContract(r, req.txn, req.path)
      [] req.method = "signUpdateContract" -> signUpdateContract(r, req.txn, req.path)
      [] req.method = "signUpdateCredentials" -> signUpdateCredentials(r, req.txn, req.path)
      [] req.method = "signPublicInfoForIp" -> signPublicInfoForIp(r, req.txn, req.path)
      [] req.method = "signCredentialDeployment" ->
             signCredentialDeployment(r, req.txn, req.isNew, req.addressOrExpiry, req.path)

\* A send that does not await: it hands over command k and the one after it.
sendToDevice_noAwait(c, k) ==
    [c EXCEPT !.pc = "awaiting",
              !.log = IF k < Len(c.script) THEN @ \o << k, k + 1 >> ELSE Append(@, k),
              !.inflight = IF k < Len(c.script) THEN @ + 2 ELSE @ + 1]

\* The call hands command k of its script to transport.send and awaits it.
sendToDevice(c, k) ==
    [c EXCEPT !.pc = "awaiting", !.log = Append(@, k), !.inflight = @ + 1]

\* The promise of the call settles.
settle(c, outcome) == [c EXCEPT !.pc = "done", !.result = outcome]

\* After the last step: if (response.length === 1) throw new Error("User has
\* declined."); return { signature: response.toString("hex") }.  Reading the
\* length of a response that was never assigned raises a TypeError.
terminal(c) ==
    IF ~c.response.def THEN settle(c, Failure("TypeError"))
    ELSE IF Len(c.response.data) = 1 THEN settle(c, UserDeclined)
    ELSE settle(c, Signature(toHex(c.response.data)))

\* A method that returns as soon as it holds a reply longer than one byte.
run_returnEarly(c) ==
    IF c.response.def /\ Len(c.response.data) > 1
    THEN [c EXCEPT !.pc = "done", !.result = Signature(toHex(c.response.data))]
    ELSE IF c.idx < Len(c.script)
    THEN [c EXCEPT !.pc = "awaiting", !.log = Append(@, c.idx + 1), !.inflight = @ + 1]
    ELSE [c EXCEPT !.pc = "done", !.result = UserDeclined]

\* The method runs from its step idx + 1 to its next await or to its end.
run(c) ==
    IF c.idx < Len(c.script)
    THEN IF c.script[c.idx + 1].t = "throw"
         THEN settle(c, Failure(c.script[c.idx + 1].err))
         ELSE sendToDevice(c, c.idx + 1)
    ELSE terminal(c)

\* A reply after which the method waits on, with nothing outstanding.
resolve_waitOn(c, data) == [c EXCEPT !.inflight = 0, !.lastReply = data]

\* transport.send resolves with an accepted status: sendToDevice returns the
\* reply without its two status bytes, the method assigns it to response
\* where it does so, and runs on.
resolve(c, data) ==
    run([c EXCEPT !.inflight = @ - 1,
                  !.replied = Append(@, c.idx + 1),
                  !.lastReply = data,
                  !.response = IF c.script[c.idx + 1].keep THEN Defined(data) ELSE @,
                  !.idx = @ + 1])

\* A send that answers a transport error by sending the command again.
reject_retry(c, e) ==
    [c EXCEPT !.failedAt = c.idx + 1, !.failure = e, !.log = Append(@, c.idx + 1)]

\* transport.send rejects: the await in sendToDevice throws, nothing in the
\* method catches it, and the promise of the call is rejected with the error.
reject(c, e) ==
    settle([c EXCEPT !.inflight = @ - 1, !.failedAt = c.idx + 1, !.failure = e], Failure(e))


-----------------------------------------------------------------------------
(* Bounds and the requests drawn from them.                                 *)

MaxFrames == 3
SmallBody == 10
MaxPathLen == 5
MaxMemoLen == 256
MaxScheduleLen == 16
MaxUrlLen == 256
MaxProofLen == 256
MaxAttributes == 2
MaxKeys == 2
MaxReplyLen == 2

\* 44'/919'/0'/0/0 and its prefixes.
pathElement(i) == [num |-> IF i = 1 THEN 44 ELSE IF i = 2 THEN 919 ELSE 0, hard |-> i <= 3]
PathOf(n) == [i \in 1..n |-> pathElement(i)]
Paths == {PathOf(2), PathOf(MaxPathLen)}

credOf(nAttributes, proofLen) ==
    [index |-> 0, keys |-> 1, ars |-> 1,
     attributes |-> [j \in 1..nAttributes |-> [tag |-> j, value |-> Bytes(j, 50)]],
     proofs |-> Bytes(proofLen, 60), seed |-> nAttributes + 1]

P0 ==
    [body |-> << >>, toAddress |-> 2, amount |-> Num(999), memo |-> << >>, schedule |-> << >>,
     data |-> << >>, remainingAmount |-> << >>, transferAmount |-> Num(5), index |-> Num(0),
     proofs |-> << >>, own |-> {}, defined |-> {}, seed |-> 1, metadataUrl |-> << >>,
     newCredentials |-> << >>, removeCredentialIds |-> << >>, threshold |-> 1]

T0 ==
    [transactionKind |-> 3, sender |-> 1, nonce |-> Num(1234), energyAmount |-> Num(501),
     expiry |-> Num(1700000000), payload |-> P0, cdi |-> credOf(0, 0)]

R0 ==
    [method |-> "signTransfer", txn |-> T0, path |-> PathOf(MaxPathLen), isNew |-> FALSE,
     addressOrExpiry |-> [expiry |-> Zero, address |-> << >>]]

\* Canonical lengths on both sides of every frame boundary up to MaxFrames.
BodyLens ==
    {SmallBody} \cup {MAX_CHUNK_SIZE * k - (HEADER_LENGTH + 1) : k \in 1..(MaxFrames - 1)}
                \cup {MAX_CHUNK_SIZE * k - HEADER_LENGTH : k \in 1..(MaxFrames - 1)}

StreamingKinds ==
    {<<"signTransfer", 3>>, <<"signConfigureDelegation", 26>>, <<"signDeployModule", 0>>,
     <<"signInitContract", 1>>, <<"signUpdateContract", 2>>}

StreamingRequests ==
    {[R0 EXCEPT !.method = m[1], !.path = p, !.txn.transactionKind = m[2],
                !.txn.payload.body = Bytes(n, m[2])] :
        m \in StreamingKinds, p \in Paths, n \in BodyLens}

Amounts == {Num(999), NumNeg(1), TwoTo64, TwoTo64Plus1}
BlobLens == {0, 1, MaxMemoLen}
ScheduleOf(n) == [i \in 1..n |-> [timestamp |-> Num(1000 + i), amount |-> Num(i)]]
\* Schedule lengths on both sides of the first frame boundary, past the second
\* one, and on both sides of the largest count encodeInt8 takes.
ScheduleLens ==
    {0, 1, MaxScheduleLen, 2 * MAX_SCHEDULE_CHUNK_SIZE + 1, INT8_MAX, INT8_MAX + 1}

MemoRequests ==
    {[R0 EXCEPT !.method = "signTransferWithMemo", !.txn.transactionKind = 22,
                !.txn.payload.memo = Bytes(n, 65), !.txn.payload.amount = a] :
        n \in BlobLens, a \in Amounts}

ScheduleRequests ==
    {[R0 EXCEPT !.method = "signTransferWithSchedule", !.txn.transactionKind = 19,
                !.txn.payload.schedule = ScheduleOf(n)] : n \in ScheduleLens}

ScheduleAndMemoRequests ==
    {[R0 EXCEPT !.method = "signTransferWithScheduleAndMemo", !.txn.transactionKind = 24,
                !.txn.payload.schedule = ScheduleOf(n), !.txn.payload.memo = Bytes(k, 65)] :
        n \in ScheduleLens, k \in {0, 1}}

RegisterDataRequests ==
    {[R0 EXCEPT !.method = "signRegisterData", !.txn.transactionKind = 21,
                !.txn.payload.data = Bytes(n, 66)] : n \in BlobLens}

TransferToPublicRequests ==
    {[R0 EXCEPT !.method = "signTransferToPublic", !.txn.transactionKind = 18,
                !.txn.payload.remainingAmount = Bytes(192, 5),
                !.txn.payload.proofs = Bytes(n, 67)] : n \in {0, 3, MaxProofLen}}

AllBakerFields == {BakerFields[k] : k \in 1..Len(BakerFields)}
BakerShapes ==
    {[own |-> {}, defined |-> {}, url |-> 0],
     [own |-> AllBakerFields, defined |-> AllBakerFields, url |-> 5],
     [own |-> AllBakerFields, defined |-> AllBakerFields, url |-> MaxUrlLen],
     [own |-> {"stake", "metadataUrl"}, defined |-> {"stake", "metadataUrl"}, url |-> 0],
     [own |-> AllBakerFields, defined |-> AllBakerFields \ {"stake"}, url |-> 5]}
        \cup {[own |-> f, defined |-> f, url |-> 5] : f \in SUBSET AllBakerFields}

ConfigureBakerRequests ==
    {[R0 EXCEPT !.method = "signConfigureBaker", !.txn.transactionKind = 25,
                !.txn.payload.own = b.own, !.txn.payload.defined = b.defined,
                !.txn.payload.metadataUrl = Bytes(b.url, 104)] : b \in BakerShapes}

CredentialLists ==
    {<< >>, << credOf(MaxAttributes, 3) >>, << credOf(0, 0), credOf(1, MaxProofLen) >>,
     << [credOf(1, 3) EXCEPT !.keys = MaxKeys] >>, << [credOf(1, 3) EXCEPT !.ars = MaxKeys] >>}

UpdateCredentialsRequests ==
    {[R0 EXCEPT !.method = "signUpdateCredentials", !.txn.transactionKind = 20,
                !.txn.payload.newCredentials = l, !.txn.payload.removeCredentialIds = ids] :
        l \in CredentialLists, ids \in {<< >>, << 7, 8 >>}}

PublicInfoForIpRequests ==
    {[R0 EXCEPT !.method = "signPublicInfoForIp", !.txn.cdi.keys = k] : k \in 1..MaxKeys}

Expiries == {Num(1700000000), NumNeg(1), TwoTo64, TwoTo64Plus1}

CredentialDeploymentRequests ==
    {[R0 EXCEPT !.method = "signCredentialDeployment", !.txn.cdi = credOf(a, 3),
                !.isNew = TRUE, !.addressOrExpiry.expiry = e] :
        a \in {0, MaxAttributes}, e \in Expiries}
    \cup {[R0 EXCEPT !.method = "signCredentialDeployment", !.txn.cdi = credOf(a, 3),
                     !.addressOrExpiry.address = toHex(Bytes(32, 9))] :
              a \in {0, MaxAttributes}}

Requests ==
    StreamingRequests \cup MemoRequests \cup ScheduleRequests \cup ScheduleAndMemoRequests
        \cup RegisterDataRequests \cup TransferToPublicRequests \cup ConfigureBakerRequests
        \cup UpdateCredentialsRequests \cup PublicInfoForIpRequests
        \cup CredentialDeploymentRequests

\* The requests of the two-caller specification: short scripts.
ConcurrentRequests ==
    {r \in StreamingRequests : r.method = "signTransfer" /\ r.path = PathOf(2)
                                   /\ Len(r.txn.payload.body) <= MAX_CHUNK_SIZE}
        \cup {r \in MemoRequests : r.txn.payload.amount = Num(999) /\ Len(r.txn.payload.memo) = 1}

Replies == {Bytes(n, 3) : n \in 0..MaxReplyLen}
TransportErrors == {"TransportStatusError", "DisconnectedDevice"}

-----------------------------------------------------------------------------
(* The state machine.                                                       *)

Idle ==
    [pc |-> "idle", req |-> R0, script |-> << >>, idx |-> 0, response |-> Undefined,
     result |-> Pending, log |-> << >>, replied |-> << >>, lastReply |-> << >>,
     inflight |-> 0, failedAt |-> 0, failure |-> "none", holdsLock |-> FALSE]

\* No numeric encoder is being called on its own.
NoEncoding == [pc |-> "none", encoder |-> "none", value |-> Zero, result |-> Encoded(<< >>)]

InitWith(slots) ==
    /\ rev \in {RevA, RevB}
    /\ calls = [s \in slots |-> Idle]
    /\ wire = << >>
    /\ appAPIlock = "none"
    /\ encoding = NoEncoding

Init == InitWith({1})
InitConc == InitWith({1, 2})

Inputs == IF Cardinality(DOMAIN calls) = 1 THEN Requests ELSE ConcurrentRequests

\* The commands call s handed to the transport in this step, in order.
handed(s, before, after) ==
    [i \in 1..(Len(after.log) - Len(before.log)) |->
        [slot |-> s, k |-> after.log[Len(before.log) + i]]]

\* The body of a signing method: the serializer has run; an exception of the
\* serializer rejects the call, otherwise the method runs up to its first await.
begin(started, script) ==
    IF script.ok
    THEN run([started EXCEPT !.script = script.steps])
    ELSE settle(started, Failure(script.err))

\* The call has run up to its first await (or to its end): c is its state
\* there.  A decorated method holds the API lock while it is awaiting.
enter(s, started, decorated, c) ==
    /\ calls' = [calls EXCEPT ![s] = [c EXCEPT !.holdsLock = decorated /\ c.pc = "awaiting"]]
    /\ wire' = wire \o handed(s, started, c)
    /\ appAPIlock' = IF decorated /\ c.pc = "awaiting" THEN c.req.method ELSE appAPIlock

\* A caller invokes a signing method.  A method registered with the API lock
\* is rejected while the lock is held; otherwise the serializer runs and the
\* method runs up to its first await.
Call(s, req) ==
    /\ calls[s].pc = "idle"
    /\ req.method \in SigningMethods(rev)
    /\ IF req.method \in decorateAppAPIMethods(rev) /\ appAPIlock # "none"
       THEN /\ calls' = [calls EXCEPT
                           ![s] = settle([Idle EXCEPT !.req = req], Failure("TransportLocked"))]
            /\ UNCHANGED <<wire, appAPIlock>>
       ELSE enter(s, [Idle EXCEPT !.req = req], req.method \in decorateAppAPIMethods(rev),
                  begin([Idle EXCEPT !.req = req], methodScript(rev, req)))
    /\ UNCHANGED <<rev, encoding>>

\* The transport delivers the reply to the outstanding command of call s.
Reply(s, data) ==
    /\ calls[s].pc = "awaiting"
    /\ LET c == resolve(calls[s], data)
       IN  /\ calls' = [calls EXCEPT ![s] = [c EXCEPT !.holdsLock = @ /\ c.pc = "awaiting"]]
           /\ wire' = wire \o handed(s, calls[s], c)
           /\ appAPIlock' = IF calls[s].holdsLock /\ c.pc = "done" THEN "none" ELSE appAPIlock
    /\ UNCHANGED <<rev, encoding>>

\* The transport fails the outstanding command of call s: a status word that
\* is not the accepted one, or a failure of the transport itself.
TransportError(s, e) ==
    /\ calls[s].pc = "awaiting"
    /\ LET c == reject(calls[s], e)
       IN  /\ calls' = [calls EXCEPT ![s] = [c EXCEPT !.holdsLock = @ /\ c.pc = "awaiting"]]
           /\ wire' = wire \o handed(s, calls[s], c)
           /\ appAPIlock' = IF calls[s].holdsLock /\ c.pc = "done" THEN "none" ELSE appAPIlock
    /\ UNCHANGED <<rev, encoding>>

Next ==
    \E s \in DOMAIN calls :
        \/ \E req \in Inputs : Call(s, req)
        \/ \E data \in Replies : Reply(s, data)
        \/ \E e \in TransportErrors : TransportError(s, e)

Spec == Init /\ [][Next]_vars
SpecConc == InitConc /\ [][Next]_vars

\* The transport answers the outstanding command of a call, with a reply or
\* with an error.
Answer ==
    \E s \in DOMAIN calls :
        \/ \E data \in Replies : Reply(s, data)
        \/ \E e \in TransportErrors : TransportError(s, e)

\* One caller, and a transport that answers every command.
SpecAnswered == Spec /\ WF_vars(Answer)

-----------------------------------------------------------------------------
(* The numeric encoders called on their own                                 *)

\* Magnitudes on both sides of every bound an encoder tests.
TwoTo32 == [neg |-> FALSE, mag |-> <<1, 0, 0, 0, 0>>, int |-> TRUE]
Magnitudes ==
    {<< >>, <<1>>, <<127>>, <<128>>, <<129>>, <<255>>, <<1, 0>>, <<255, 255>>, <<1, 0, 0>>,
     Int32Max.mag, Int32Min.mag, <<128, 0, 0, 1>>, Word32Max.mag, TwoTo32.mag,
     Word64Max.mag, TwoTo64.mag, TwoTo64Plus1.mag}

\* The values handed to an encoder: integers of either sign, and values half
\* a unit further from zero than an integer (int is FALSE for those).
EncoderValues ==
    {[neg |-> n, mag |-> m, int |-> i] : n \in BOOLEAN, m \in Magnitudes, i \in BOOLEAN}
        \ {[neg |-> TRUE, mag |-> << >>, int |-> i] : i \in BOOLEAN}

Encoders == {"encodeInt8", "encodeWord16", "encodeInt32", "encodeWord32", "encodeWord64"}

applyEncoder(encoder, value) ==
    CASE encoder = "encodeInt8" -> encodeInt8(value)
      [] encoder = "encodeWord16" -> encodeWord16(value)
      [] encoder = "encodeInt32" -> encodeInt32(value)
      [] encoder = "encodeWord32" -> encodeWord32(value)
      [] encoder = "encodeWord64" -> encodeWord64(value)

InitEncoders ==
    /\ rev = RevA
    /\ calls = [s \in {1} |-> Idle]
    /\ wire = << >>
    /\ appAPIlock = "none"
    /\ encoding \in {[pc |-> "called", encoder |-> e, value |-> v, result |-> Encoded(<< >>)] :
                         e \in Encoders, v \in EncoderValues}

\* The encoder returns its buffer or throws.
Encode ==
    /\ encoding.pc = "called"
    /\ encoding' = [encoding EXCEPT !.pc = "returned",
                                    !.result = applyEncoder(encoding.encoder, encoding.value)]
    /\ UNCHANGED <<rev, calls, wire, appAPIlock>>

SpecEncoders == InitEncoders /\ [][Encode]_vars

-----------------------------------------------------------------------------
(* The frame splitters called on their own                                  *)

\* The components a path string is made of: numbers with and without the
\* hardening marker, and text parseInt reads no number from ("x", "x'").
Components ==
    {[num |-> 44, hard |-> TRUE], [num |-> 8217, hard |-> TRUE], [num |-> 0, hard |-> TRUE],
     [num |-> 0, hard |-> FALSE], [num |-> 1, hard |-> FALSE],
     [num |-> NaN, hard |-> FALSE], [num |-> NaN, hard |-> TRUE]}

\* 44'/8217'/0'/0/0
Derivation ==
    << [num |-> 44, hard |-> TRUE], [num |-> 8217, hard |-> TRUE], [num |-> 0, hard |-> TRUE],
       [num |-> 0, hard |-> FALSE], [num |-> 0, hard |-> FALSE] >>

SplitPaths ==
    UNION {[1..n -> Components] : n \in 1..(MaxPathLen - 2)} \cup {Derivation, PathOf(MaxPathLen)}

\* Byte sequences on both sides of the frame boundaries, the empty one included.
SplitLens ==
    {0, 1, SmallBody, MAX_CHUNK_SIZE - (1 + 4 * MaxPathLen), MAX_CHUNK_SIZE - 4 * MaxPathLen, MAX_CHUNK_SIZE,
     MAX_CHUNK_SIZE + 1, 2 * MAX_CHUNK_SIZE - (1 + 4 * MaxPathLen),
     2 * MAX_CHUNK_SIZE - 4 * MaxPathLen, 2 * MAX_CHUNK_SIZE,
     2 * MAX_CHUNK_SIZE + 1}

Frames(payloads) == [ok |-> TRUE, bytes |-> payloads, err |-> "none"]

InitSplitter ==
    /\ rev = RevA
    /\ calls = [s \in {1} |-> Idle]
    /\ wire = << >>
    /\ appAPIlock = "none"
    /\ encoding \in
           {[pc |-> "called", encoder |-> "serializeTransactionPayloadsWithDerivationPath",
             value |-> [path |-> p, rawTx |-> Bytes(n, 7)], result |-> Frames(<< >>)] :
               p \in SplitPaths, n \in {0, SmallBody}}
           \cup
           {[pc |-> "called", encoder |-> "serializeTransactionPayloadsWithDerivationPath",
             value |-> [path |-> p, rawTx |-> Bytes(n, 7)], result |-> Frames(<< >>)] :
               p \in {Derivation, PathOf(2)}, n \in SplitLens}
           \cup
           {[pc |-> "called", encoder |-> "serializeTransactionPayloads",
             value |-> [path |-> << >>, rawTx |-> Bytes(n, 7)], result |-> Frames(<< >>)] :
               n \in SplitLens}

\* The splitter returns its list of frames.
Split ==
    /\ encoding.pc = "called"
    /\ encoding' =
           [encoding EXCEPT
               !.pc = "returned",
               !.result =
                   IF encoding.encoder = "serializeTransactionPayloads"
                   THEN Frames(serializeTransactionPayloads(encoding.value.rawTx))
                   ELSE Frames(serializeTransactionPayloadsWithDerivationPath(
                                   encoding.value.path, encoding.value.rawTx))]
    /\ UNCHANGED <<rev, calls, wire, appAPIlock>>

SpecSplitter == InitSplitter /\ [][Split]_vars

\* A splitter is a synchronous function: once called it runs to its return.
SpecSplitterFair == SpecSplitter /\ WF_vars(Split)

-----------------------------------------------------------------------------
(* A serializer called twice with the same transaction object               *)

\* The serializers that replace the memo or the data of the transaction they
\* are given: txn.payload.memo = new DataBlob(memoBuffer), and likewise
\* txn.payload.data.
ReplacesBlob(method) ==
    method \in {"signTransferWithMemo", "signTransferWithScheduleAndMemo", "signRegisterData"}

\* What the serializer behind a signing method returns for a request.
serializerOf(req) ==
    CASE req.method = "signTransferWithMemo" -> serializeSimpleTransferWithMemo(req.txn, req.path)
      [] req.method = "signTransferWithSchedule" ->
             serializeTransferWithSchedule(req.txn, req.path)
      [] req.method = "signTransferWithScheduleAndMemo" ->
             serializeTransferWithScheduleAndMemo(req.txn, req.path)
      [] req.method = "signRegisterData" -> serializeRegisterData(req.txn, req.path)
      [] req.method = "signTransferToPublic" -> serializeTransferToPublic(req.txn, req.path)
      [] OTHER -> serializeTransaction(req.txn, req.path)

\* NodeBuffer.from(memo, 'utf-8') reads a string.  Once the field holds the
\* DataBlob of an earlier call, the conversion is that of the buffer package
\* for an object that is neither a string nor a buffer: it throws a TypeError
\* or yields what it can read of the object.
serializerOutcomes(req, holdsDataBlob) ==
    IF holdsDataBlob THEN {Failed("TypeError"), serializerOf(req)} ELSE {serializerOf(req)}

ReuseRequests ==
    {r \in Requests :
           r.method \in {"signTransfer", "signTransferWithMemo", "signTransferWithSchedule",
                          "signTransferWithScheduleAndMemo", "signRegisterData",
                          "signTransferToPublic", "signConfigureDelegation"}}

\* value is the transaction object of the caller: the request, and whether
\* its memo or data field holds a DataBlob; result.bytes lists what each
\* call of the serializer returned.
InitReuse ==
    /\ rev = RevA
    /\ calls = [s \in {1} |-> Idle]
    /\ wire = << >>
    /\ appAPIlock = "none"
    /\ encoding \in {[pc |-> "called", encoder |-> r.method,
                       value |-> [req |-> r, holdsDataBlob |-> FALSE],
                       result |-> Frames(<< >>)] : r \in ReuseRequests}

SerializeWith(outcome) ==
    /\ encoding' =
           [encoding EXCEPT
               !.pc = "returned",
               !.value.holdsDataBlob = @ \/ (ReplacesBlob(encoding.encoder) /\ outcome.ok),
               !.result.bytes = Append(@, outcome)]
    /\ UNCHANGED <<rev, calls, wire, appAPIlock>>

\* The caller serializes the transaction object once more.
Serialize ==
    /\ Len(encoding.result.bytes) < 2
    /\ \E outcome \in serializerOutcomes(encoding.value.req, encoding.value.holdsDataBlob) :
           SerializeWith(outcome)

SpecReuse == InitReuse /\ [][Serialize]_vars


-----------------------------------------------------------------------------
(* The methods that sign nothing: one command each.  A method is an         *)
(* operator of the request and of the point the call has reached: at        *)
(* "call" it gives the command it hands to sendToDevice (or the exception   *)
(* raised before that), at "resolved" what it returns from the reply, at    *)
(* "rejected" what becomes of an exception.                                 *)

\* What a method returns to its caller.
Returned(value) == [kind |-> "value", err |-> "none", signature |-> << >>, value |-> value]

\* A flag of a call: true, false, or left out (undefined, which is falsy).
Truthy(flag) == flag = "true"

\* try { encodeInt32(id); encodeInt32(cred); await sendToDevice(...);
\*       return { status: "success" } } catch { return { status: "failed" } }
verifyAddressLegacy(req, at, outcome) ==
    IF at = "call"
    THEN IF ~encodeAll(<< encodeInt32(req.id), encodeInt32(req.cred) >>).ok
         THEN Throw(RangeError)
         ELSE Send(INS_VERIFY_ADDRESS, P1_LEGACY_VERIFY_ADDRESS, NONE,
                   concat(<< encodeInt32(req.id).bytes, encodeInt32(req.cred).bytes >>), FALSE)
    ELSE IF at = "resolved" THEN Returned([status |-> "success"])
    ELSE Returned([status |-> "failed"])

\* A verifyAddress that sends the low four bytes of whatever it is given.
verifyAddress_unchecked(req, at, outcome) ==
    IF at = "call"
    THEN Send(INS_VERIFY_ADDRESS, P1_VERIFY_ADDRESS, NONE,
              concat(<< LowBytes(req.idp.mag, 4), LowBytes(req.id.mag, 4),
                        LowBytes(req.cred.mag, 4) >>), FALSE)
    ELSE IF at = "resolved" THEN Returned([status |-> "success"])
    ELSE Returned([status |-> "failed"])

\* verifyAddress(idp, id, cred) of src/src/Concordium.ts.
verifyAddress(req, at, outcome) ==
    IF at = "call"
    THEN IF ~encodeAll(<< encodeInt32(req.id), encodeInt32(req.idp),
                          encodeInt32(req.cred) >>).ok
         THEN Throw(RangeError)
         ELSE Send(INS_VERIFY_ADDRESS, P1_VERIFY_ADDRESS, NONE,
                   concat(<< encodeInt32(req.idp).bytes, encodeInt32(req.id).bytes,
                             encodeInt32(req.cred).bytes >>), FALSE)
    ELSE IF at = "resolved" THEN Returned([status |-> "success"])
    ELSE Returned([status |-> "failed"])

\* A verifyAddress whose exceptions reach the caller.
verifyAddress_B_uncaught(req, at, outcome) ==
    IF at = "call"
    THEN IF ~encodeAll(<< encodeInt32(req.id) >>
                       \o (IF req.isLegacy THEN << >> ELSE << encodeInt32(req.idp) >>)
                       \o << encodeInt32(req.cred) >>).ok
         THEN Throw(RangeError)
         ELSE Send(INS_VERIFY_ADDRESS,
                   IF req.isLegacy THEN P1_LEGACY_VERIFY_ADDRESS ELSE P1_VERIFY_ADDRESS, NONE,
                   concat(<< encodeInt32(req.id).bytes >>
                          \o (IF req.isLegacy THEN << >> ELSE << encodeInt32(req.idp).bytes >>)
                          \o << encodeInt32(req.cred).bytes >>), FALSE)
    ELSE IF at = "resolved" THEN Returned([status |-> "success"])
    ELSE Failure(outcome)

\* verifyAddress(isLegacy, id, cred, idp?) of src/unnamed/part_000: idp is
\* encoded, after id, only when isLegacy is false.
verifyAddress_B(req, at, outcome) ==
    IF at = "call"
    THEN IF ~encodeAll(<< encodeInt32(req.id) >>
                       \o (IF req.isLegacy THEN << >> ELSE << encodeInt32(req.idp) >>)
                       \o << encodeInt32(req.cred) >>).ok
         THEN Throw(RangeError)
         ELSE Send(INS_VERIFY_ADDRESS,
                   IF req.isLegacy THEN P1_LEGACY_VERIFY_ADDRESS ELSE P1_VERIFY_ADDRESS, NONE,
                   concat(<< encodeInt32(req.id).bytes >>
                          \o (IF req.isLegacy THEN << >> ELSE << encodeInt32(req.idp).bytes >>)
                          \o << encodeInt32(req.cred).bytes >>), FALSE)
    ELSE IF at = "resolved" THEN Returned([status |-> "success"])
    ELSE Returned([status |-> "failed"])

\* pathToBuffer: serializePath of the numbers of a well-formed path, one
\* count byte and four bytes per component.
pathToBuffer(originalPath) == << Len(originalPath) % 256 >> \o writeAll(originalPath)

\* publicKeyBuffer[0] of an empty reply is undefined, and a bound that is
\* not a number counts as 0 in subarray.
getPublicKey(req, at, outcome) ==
    IF at = "call"
    THEN Send(INS_GET_PUBLIC_KEY, IF Truthy(req.display) THEN P1_NON_CONFIRM ELSE P1_CONFIRM,
              IF Truthy(req.signedKey) THEN P2_SIGNED_KEY ELSE NONE,
              pathToBuffer(req.path), TRUE)
    ELSE IF at = "resolved"
    THEN IF Truthy(req.signedKey)
         THEN Returned([publicKey |-> toHex(subarray(outcome, 1, IF outcome = << >> THEN 0 ELSE 1 + outcome[1])),
                        signedPublicKey |->
                            toHex(subarray(outcome, IF outcome = << >> THEN 0
                                                    ELSE 1 + outcome[1], Len(outcome)))])
         ELSE Returned([publicKey |-> toHex(subarray(outcome, 1, IF outcome = << >> THEN 0 ELSE 1 + outcome[1]))])
    ELSE Failure(outcome)

\* A number in a template literal: its decimal digits.
RECURSIVE Decimal(_)
Decimal(n) ==
    IF n < 10 THEN << <<"0", "1", "2", "3", "4", "5", "6", "7", "8", "9">>[n + 1] >>
    ELSE Decimal(n \div 10) \o Decimal(n % 10)

\* An element of the destructured reply in a template literal: the text
\* "undefined" where the reply has no such byte.
Component(reply, i) == IF i < Len(reply) THEN Decimal(reply[i + 1]) ELSE << "undefined" >>

\* A version string with major and minor exchanged.
versionString_minorFirst(reply) ==
    Component(reply, 1) \o << "." >> \o Component(reply, 0) \o << "." >> \o Component(reply, 2)

\* `${major}.${minor}.${patch}` of [major, minor, patch] = reply
versionString(reply) ==
    Component(reply, 0) \o << "." >> \o Component(reply, 1) \o << "." >> \o Component(reply, 2)

\* getVersion of src/unnamed/part_001.
getVersion(req, at, outcome) ==
    IF at = "call" THEN Send(INS_GET_VERSION, NONE, NONE, << >>, TRUE)
    ELSE IF at = "resolved" THEN Returned([version |-> versionString(outcome)])
    ELSE Failure(outcome)

QueryMethods(r) ==
    IF r = RevA THEN {"verifyAddressLegacy", "verifyAddress", "getPublicKey"}
    ELSE IF r = RevB THEN {"verifyAddress", "getPublicKey"}
    ELSE {"getVersion"}

queryMethod(r, req, at, outcome) ==
    CASE req.method = "verifyAddressLegacy" -> verifyAddressLegacy(req, at, outcome)
      [] req.method = "verifyAddress" /\ r = RevA -> verifyAddress(req, at, outcome)
      [] req.method = "verifyAddress" /\ r # RevA -> verifyAddress_B(req, at, outcome)
      [] req.method = "getPublicKey" -> getPublicKey(req, at, outcome)
      [] req.method = "getVersion" -> getVersion(req, at, outcome)

\* The numbers handed to verifyAddress: in range, the two ends of the 32-bit
\* signed range, one past each end, and a value that is not an integer (as
\* an omitted idp is not).
AboveInt32 == [neg |-> FALSE, mag |-> <<128, 0, 0, 0>>, int |-> TRUE]
BelowInt32 == [neg |-> TRUE, mag |-> <<128, 0, 0, 1>>, int |-> TRUE]
NotAnInteger == [neg |-> FALSE, mag |-> <<1>>, int |-> FALSE]
VerifyIds == {Num(1), Int32Max, Int32Min, AboveInt32, BelowInt32, NotAnInteger}
Flags == {"true", "false", "undefined"}

Q0 ==
    [method |-> "getVersion", isLegacy |-> FALSE, idp |-> Zero, id |-> Zero, cred |-> Zero,
     path |-> PathOf(MaxPathLen), display |-> "undefined", signedKey |-> "undefined"]

QueryRequests ==
    {[Q0 EXCEPT !.method = m, !.isLegacy = l, !.idp = idp, !.id = id, !.cred = cred] :
        m \in {"verifyAddress", "verifyAddressLegacy"}, l \in BOOLEAN,
        idp \in {Num(2), AboveInt32, NotAnInteger}, id \in VerifyIds,
        cred \in {Num(3), NumNeg(1), BelowInt32}}
    \cup {[Q0 EXCEPT !.method = "getPublicKey", !.path = p, !.display = d, !.signedKey = k] :
              p \in Paths, d \in Flags, k \in Flags}
    \cup {Q0}

\* The data of a reply: none (status word only), a declined-length byte, a
\* version, a key with its length in front, a key followed by a signature.
QueryReplies ==
    {<< >>, <<1>>, <<1, 1, 0>>, <<12, 0, 255, 9>>, <<2, 170, 187>>, <<2, 170, 187, 204, 221>>}

InitQueries ==
    /\ rev \in {RevA, RevB, RevC}
    /\ calls = [s \in {1} |-> Idle]
    /\ wire = << >>
    /\ appAPIlock = "none"
    /\ encoding = NoEncoding

\* A caller invokes one of these methods: the method runs up to its await,
\* or to its end when it raises before sending.
Query(s, req) ==
    /\ calls[s].pc = "idle"
    /\ req.method \in QueryMethods(rev)
    /\ IF req.method \in decorateAppAPIMethods(rev) /\ appAPIlock # "none"
       THEN /\ calls' = [calls EXCEPT
                           ![s] = settle([Idle EXCEPT !.req = req], Failure("TransportLocked"))]
            /\ UNCHANGED <<wire, appAPIlock>>
       ELSE enter(s, [Idle EXCEPT !.req = req], req.method \in decorateAppAPIMethods(rev),
                  IF queryMethod(rev, req, "call", << >>).t = "throw"
                  THEN settle([Idle EXCEPT !.req = req],
                              queryMethod(rev, req, "rejected",
                                          queryMethod(rev, req, "call", << >>).err))
                  ELSE sendToDevice([Idle EXCEPT !.req = req,
                                          !.script = << queryMethod(rev, req, "call", << >>) >>],
                                    1))
    /\ UNCHANGED <<rev, encoding>>

\* transport.send resolves: the method returns what it makes of the reply.
QueryReply(s, data) ==
    /\ calls[s].pc = "awaiting"
    /\ calls' = [calls EXCEPT
                    ![s] = [settle(calls[s], queryMethod(rev, calls[s].req, "resolved", data))
                               EXCEPT !.inflight = @ - 1, !.replied = Append(@, 1),
                                      !.lastReply = data, !.response = Defined(data),
                                      !.idx = 1, !.holdsLock = FALSE]]
    /\ appAPIlock' = IF calls[s].holdsLock THEN "none" ELSE appAPIlock
    /\ UNCHANGED <<rev, wire, encoding>>

\* transport.send rejects: the await throws inside the method.
QueryError(s, e) ==
    /\ calls[s].pc = "awaiting"
    /\ calls' = [calls EXCEPT
                    ![s] = [settle(calls[s], queryMethod(rev, calls[s].req, "rejected", e))
                               EXCEPT !.inflight = @ - 1, !.failedAt = 1, !.failure = e,
                                      !.holdsLock = FALSE]]
    /\ appAPIlock' = IF calls[s].holdsLock THEN "none" ELSE appAPIlock
    /\ UNCHANGED <<rev, wire, encoding>>

NextQueries ==
    \E s \in DOMAIN calls :
        \/ \E req \in QueryRequests : Query(s, req)
        \/ \E data \in QueryReplies : QueryReply(s, data)
        \/ \E e \in TransportErrors : QueryError(s, e)

SpecQueries == InitQueries /\ [][NextQueries]_vars


-----------------------------------------------------------------------------
(* Long transactions.  The streaming methods build their commands from the  *)
(* frames of the whole transaction; here a method is applied to             *)
(* transactions of up to LongFrames frames and the commands it would hand   *)
(* to sendToDevice, one after the other, are kept.                          *)

LongFrames == 257

\* Canonical lengths that fill 1, 2, LongFrames - 1 frames, and the shortest
\* one that needs LongFrames.
LongLens ==
    {MAX_CHUNK_SIZE * k : k \in {1, 2, LongFrames - 1}}
        \cup {MAX_CHUNK_SIZE * (LongFrames - 1) + 1}

\* The calls: a streaming method, its transaction kind, a path and the
\* length of the payload body.
LongCalls ==
    {[method |-> m[1], kind |-> m[2], path |-> p, bodyLen |-> n - (HEADER_LENGTH + 1)] :
        m \in StreamingKinds, p \in Paths, n \in LongLens}

\* The transaction of a call.
LongTxn(c) ==
    [R0.txn EXCEPT !.transactionKind = c.kind, !.payload.body = Bytes(c.bodyLen, c.kind)]

\* The instruction each streaming method passes to sendToDevice.
streamingIns(method) ==
    CASE method = "signTransfer" -> INS_SIGN_TRANSFER
      [] method = "signConfigureDelegation" -> INS_SIGN_CONFIGURE_DELEGATION
      [] method = "signDeployModule" -> INS_SIGN_DEPLOY_MODULE
      [] method = "signInitContract" -> INS_SIGN_INIT_CONTRACT
      [] method = "signUpdateContract" -> INS_SIGN_UPDATE_CONTRACT

\* The while loop of serializeTransactionPayloadsWithDerivationPath, by turn:
\* every turn but the last finds offset + MAX_CHUNK_SIZE <= rawTx.length and
\* moves the offset on by MAX_CHUNK_SIZE, so turn k (from 0) starts at
\* k * MAX_CHUNK_SIZE, and the loop ends with the turn that reaches
\* rawTx.length.
offsetOfTurn(k) == k * MAX_CHUNK_SIZE

turnsOf(length) == (length + MAX_CHUNK_SIZE - 1) \div MAX_CHUNK_SIZE

\* The buffer pushed by the turn that starts at the given offset.
turnBuffer(pathBuf, rawTx, offset) ==
    (IF offset = 0 THEN pathBuf ELSE << >>)
        \o subarray(rawTx, offset, offset + chunkSizeAt(offset, Len(rawTx)))

\* serializeTransactionPayloadsWithDerivationPath, turn by turn.
payloadsByTurn(path, rawTx) ==
    [k \in 1..turnsOf(Len(rawTx)) |->
        turnBuffer(pathBuffer(path), rawTx, offsetOfTurn(k - 1))]

\* A streaming method has been called; the second revision's signDeployModule
\* is not a streaming method.
InitLong ==
    /\ rev \in {RevA, RevB}
    /\ calls = [s \in {1} |-> Idle]
    /\ wire = << >>
    /\ appAPIlock = "none"
    /\ encoding \in {[pc |-> "called", encoder |-> r.method, value |-> r,
                      canonical |-> 0, script |-> Script(<< >>)] :
                        r \in {q \in LongCalls :
                                  ~(rev = RevB /\ q.method = "signDeployModule")}}

\* The method: serializeTransaction (serializeAccountTransaction, whose
\* length is kept as canonical, then the frames), then the loop that hands one
\* command per frame to sendToDevice.
Stream ==
    /\ encoding.pc = "called"
    /\ encoding' =
           IF ~serializeAccountTransaction(LongTxn(encoding.value)).ok
           THEN [encoding EXCEPT !.pc = "returned",
                     !.script = NoScript(serializeAccountTransaction(LongTxn(encoding.value)).err)]
           ELSE [encoding EXCEPT !.pc = "returned",
                     !.canonical = Len(serializeAccountTransaction(LongTxn(encoding.value)).bytes),
                     !.script =
                         Script(streamingLoop(
                             streamingIns(encoding.encoder),
                             payloadsByTurn(encoding.value.path,
                                 serializeAccountTransaction(LongTxn(encoding.value)).bytes)))]
    /\ UNCHANGED <<rev, calls, wire, appAPIlock>>

SpecLong == InitLong /\ [][Stream]_vars

-----------------------------------------------------------------------------
(* Properties.                                                              *)

\* The commands call c handed to the transport, in the order it did so.
sent(c) == [i \in 1..Len(c.log) |-> c.script[c.log[i]]]

payloadsOf(commands) == [i \in 1..Len(commands) |-> commands[i].data]

UpTo(n) == [i \in 1..n |-> i]

\* The calls whose method runs the streaming loop over the frames of
\* serializeTransaction.
StreamingIns(method) ==
    CASE method = "signTransfer" -> INS_SIGN_TRANSFER
      [] method = "signConfigureDelegation" -> INS_SIGN_CONFIGURE_DELEGATION
      [] method = "signDeployModule" -> INS_SIGN_DEPLOY_MODULE
      [] method = "signInitContract" -> INS_SIGN_INIT_CONTRACT
      [] method = "signUpdateContract" -> INS_SIGN_UPDATE_CONTRACT

IsStreaming(c) ==
    /\ c.pc # "idle"
    /\ c.req.method \in {"signTransfer", "signConfigureDelegation", "signDeployModule",
                         "signInitContract", "signUpdateContract"}
    /\ ~(rev = RevB /\ c.req.method = "signDeployModule")

AllSent(c) == c.log = UpTo(Len(c.script))

\* C1: in a streaming call, the payloads handed to the transport, concatenated
\* in send order, begin with the path encoding, and what follows it is a
\* prefix of the canonical bytes of the transaction; once every frame has been
\* sent it is exactly the canonical bytes.
C1_StreamedBytesAreCanonical ==
    \A s \in DOMAIN calls :
        LET c == calls[s]
            got == concat(payloadsOf(sent(c)))
            prefix == pathBuffer(c.req.path)
            canonical == serializeAccountTransaction(c.req.txn).bytes
            rest == SubSeq(got, Len(prefix) + 1, Len(got))
        IN  (IsStreaming(c) /\ c.log # << >>) =>
                /\ Len(got) >= Len(prefix)
                /\ SubSeq(got, 1, Len(prefix)) = prefix
                /\ Len(rest) <= Len(canonical)
                /\ rest = SubSeq(canonical, 1, Len(rest))
                /\ (AllSent(c) => rest = canonical)

\* A streaming call of three frames has sent them all and returned a signature.
C1_Witness ==
    \E s \in DOMAIN calls :
        /\ IsStreaming(calls[s])
        /\ Len(calls[s].script) = MaxFrames
        /\ AllSent(calls[s])
        /\ calls[s].result.kind = "signature"

\* C2: every payload handed to the transport is at most 255 bytes long, the
\* path encoding of the first frame included.
C2_PayloadWithinLimit ==
    \A s \in DOMAIN calls :
        \A i \in 1..Len(calls[s].log) :
            Len(sent(calls[s])[i].data) <= MAX_CHUNK_SIZE

\* C3: when the reply to the last command of the script has exactly one data
\* byte, the call fails with the user-declined error.
C3_OneByteTerminalReplyDeclines ==
    \A s \in DOMAIN calls :
        LET c == calls[s]
        IN  (/\ c.pc = "done"
             /\ Len(c.script) > 0
             /\ c.replied = UpTo(Len(c.script))
             /\ Len(c.lastReply) = 1) => c.result = UserDeclined

\* C4: a signing call whose input the encoders accept ends with a signature,
\* with the user-declined error, or with the error the transport reported.
C4_ThreeOutcomes ==
    \A s \in DOMAIN calls :
        LET c == calls[s]
        IN  (/\ c.pc = "done"
             /\ c.log # << >>
             /\ \A k \in 1..Len(c.script) : c.script[k].t = "send") =>
                \/ c.result.kind = "signature"
                \/ c.result = UserDeclined
                \/ c.result.kind = "error" /\ c.result.err \in TransportErrors

\* C5: the commands of a call are handed to the transport once each and in
\* script order; when the transport reports an error for the command of stage
\* k, the call is over with that error and stage k is the last one sent.
C5_TransportErrorAborts ==
    \A s \in DOMAIN calls :
        LET c == calls[s]
        IN  /\ c.log = UpTo(Len(c.log))
            /\ c.failedAt # 0 =>
                   /\ c.pc = "done"
                   /\ c.result = Failure(c.failure)
                   /\ c.failure \in TransportErrors
                   /\ c.log = UpTo(c.failedAt)
                   /\ c.inflight = 0

\* The transport failed stage 2 or later of a script that had stages left.
C5_Witness ==
    \E s \in DOMAIN calls :
        /\ calls[s].failedAt >= 2
        /\ calls[s].failedAt < Len(calls[s].script)
        /\ calls[s].pc = "done"

\* C6: a call that returned a signature has sent every command of its script,
\* in script order, and has received a reply to each; the signature is the
\* reply to the last one.
C6_SignatureOnlyAfterFullScript ==
    \A s \in DOMAIN calls :
        LET c == calls[s]
        IN  c.result.kind = "signature" =>
                /\ c.pc = "done"
                /\ Len(c.script) > 0
                /\ \A k \in 1..Len(c.script) : c.script[k].t = "send"
                /\ c.log = UpTo(Len(c.script))
                /\ c.replied = UpTo(Len(c.script))
                /\ c.result.signature = toHex(c.lastReply)

\* A configure-baker call (six stages) has returned a signature.
C6_Witness ==
    \E s \in DOMAIN calls :
        /\ calls[s].result.kind = "signature"
        /\ calls[s].req.method = "signConfigureBaker"
        /\ Len(calls[s].script) = 6

\* C7: when a numeric encoder rejects a value of the caller, the call fails
\* with the encoding error and has sent no command.
C7_EncodingErrorBeforeAnyCommand ==
    \A s \in DOMAIN calls :
        (calls[s].result.kind = "error" /\ calls[s].result.err = RangeError) =>
            calls[s].log = << >>

\* C8: a call has at most one command outstanding, and the command of stage
\* k + 1 is handed to the transport only after the reply to stage k.
C8_OneCommandOutstanding ==
    \A s \in DOMAIN calls :
        LET c == calls[s]
        IN  /\ c.inflight \in {0, 1}
            /\ (c.inflight = 1) <=> (c.pc = "awaiting")
            /\ c.replied = UpTo(Len(c.replied))
            /\ Len(c.log) = Len(c.replied) + c.inflight + (IF c.failedAt # 0 THEN 1 ELSE 0)

\* A call awaits the reply to its third command, the first two replied.
C8_Witness ==
    \E s \in DOMAIN calls :
        /\ calls[s].pc = "awaiting"
        /\ calls[s].log = UpTo(3)
        /\ calls[s].replied = UpTo(2)

\* A command of one call lies on the wire between two commands of another.
Interleaved ==
    \E i, j, k \in 1..Len(wire) :
        i < j /\ j < k /\ wire[i].slot = wire[k].slot /\ wire[j].slot # wire[i].slot

Rejected(c) == c.result.kind = "error" /\ c.result.err = "TransportLocked"

\* C9 as stated: no signing call is turned away because another one is in
\* progress on the instance.
C9_NoExclusion == \A s \in DOMAIN calls : ~Rejected(calls[s])

\* C9, amended: the class that does not register its signing methods with
\* the transport's API lock (RevA) lets the commands of two calls interleave;
\* in the class that registers them (RevB) at most one call is in progress, a
\* call started meanwhile is rejected before it sends anything, and the wire
\* never interleaves.
C9_ExclusionOnlyWhereRegistered ==
    /\ Interleaved => rev = RevA
    /\ rev = RevB => Cardinality({s \in DOMAIN calls : calls[s].pc = "awaiting"}) <= 1
    /\ \A s \in DOMAIN calls : Rejected(calls[s]) => rev = RevB /\ calls[s].log = << >>
    /\ rev = RevA => appAPIlock = "none"

\* Two calls on a RevA instance, their commands interleaved.
C9_Witness == rev = RevA /\ Interleaved

\* C10: in a streaming call of n frames the i-th command sent (from 0) has the
\* instruction code of its kind, P1 = i, and P2 = 0x80 when i < n - 1 and 0x00
\* when i = n - 1.
C10_StreamingTags ==
    \A s \in DOMAIN calls :
        LET c == calls[s]
            n == Len(serializeTransactionPayloadsWithDerivationPath(
                         c.req.path, serializeAccountTransaction(c.req.txn).bytes))
        IN  (IsStreaming(c) /\ c.log # << >>) =>
                /\ Len(c.log) <= n
                /\ \A i \in 0..(Len(c.log) - 1) :
                       /\ sent(c)[i + 1].ins = StreamingIns(c.req.method)
                       /\ sent(c)[i + 1].p1 = i
                       /\ sent(c)[i + 1].p2 = IF i < n - 1 THEN P2_MORE ELSE P2_LAST
                /\ c.result.kind = "signature" => Len(c.log) = n

\* A streaming call has sent all of three frames.
C10_Witness ==
    \E s \in DOMAIN calls :
        /\ IsStreaming(calls[s])
        /\ Len(calls[s].log) = MaxFrames
        /\ sent(calls[s])[MaxFrames].p2 = P2_LAST
        /\ sent(calls[s])[1].p2 = P2_MORE


-----------------------------------------------------------------------------
(* Structured kinds: what reaches the device against the transaction bytes  *)

\* A call of the given method that has handed every command of a non-empty
\* script to the transport.
SentAll(c, method) ==
    c.pc # "idle" /\ c.req.method = method /\ c.log # << >> /\ AllSent(c)

\* The payloads a call handed to the transport, concatenated in send order,
\* without the path encoding they begin with.
streamOf(c) ==
    LET got == concat(payloadsOf(sent(c)))
    IN  SubSeq(got, Len(pathBuffer(c.req.path)) + 1, Len(got))

\* header, kind tag, to-address, 2-byte memo length, memo, 8-byte amount
transferWithMemoBytes(txn) ==
    serializeAccountTransactionHeader(
        txn, 1 + Len(AccountAddress_toBuffer(txn.payload.toAddress))
               + Len(encodeDataBlob(txn.payload.memo).bytes)
               + Len(encodeWord64(txn.payload.amount).bytes)).bytes
        \o serializedType(txn)
        \o AccountAddress_toBuffer(txn.payload.toAddress)
        \o encodeDataBlob(txn.payload.memo).bytes
        \o encodeWord64(txn.payload.amount).bytes

\* C11: when signTransferWithMemo has sent all its commands, their payloads,
\* concatenated in order with the path prefix removed, are header, kind tag,
\* to-address, 2-byte memo length L, all L memo bytes and the 8-byte amount.
C11_MemoBytesReachDevice ==
    \A s \in DOMAIN calls :
        SentAll(calls[s], "signTransferWithMemo") =>
            streamOf(calls[s]) = transferWithMemoBytes(calls[s].req.txn)


\* serializeScheduleAndMemo, the payload of a transfer with schedule and memo
\* in serializeAccountTransaction: to-address, memo blob, schedule count,
\* then the pairs.
serializeScheduleAndMemo(payload) ==
    encodeAll(<< Encoded(AccountAddress_toBuffer(payload.toAddress)),
                 encodeDataBlob(payload.memo),
                 encodeInt8(Num(Len(payload.schedule))),
                 encodeAll(scheduleItems(payload.schedule)) >>)

\* header, kind tag and payload, the size in the header being the payload
\* length plus one.
transferWithScheduleAndMemoBytes(txn) ==
    serializeAccountTransactionHeader(
        txn, Len(serializeScheduleAndMemo(txn.payload).bytes) + 1).bytes
        \o serializedType(txn)
        \o serializeScheduleAndMemo(txn.payload).bytes

\* C12: when signTransferWithScheduleAndMemo has sent all its commands, their
\* payloads, concatenated in order with the path prefix removed, are the
\* canonical serialization of the transaction: to-address, memo blob,
\* schedule count and pairs in the order serializeScheduleAndMemo writes them.
C12_ScheduleAndMemoIsCanonical ==
    \A s \in DOMAIN calls :
        SentAll(calls[s], "signTransferWithScheduleAndMemo") =>
            streamOf(calls[s]) = transferWithScheduleAndMemoBytes(calls[s].req.txn)


\* The width in the byte stream of an optional configure-baker field.
bakerFieldWidth(payload, f) ==
    CASE f = "stake" -> STAKING_PAYLOAD_LENGTH
      [] f = "restakeEarnings" -> RESTAKE_EARNINGS_PAYLOAD_LENGTH
      [] f = "openForDelegation" -> OPEN_FOR_DELEGATION_PAYLOAD_LENGTH
      [] f = "keys" -> KEYS_PAYLOAD_LENGTH
      [] f = "metadataUrl" -> METADATA_URL_LENGTH + Len(payload.metadataUrl)
      [] f = "transactionFeeCommission" -> TRANSACTION_FEE_COMMISSION_LENGTH
      [] f = "bakingRewardCommission" -> BAKING_REWARD_COMMISSION_LENGTH
      [] f = "finalizationRewardCommission" -> FINALIZATION_REWARD_COMMISSION_LENGTH

RECURSIVE bakerWidths(_, _, _)
bakerWidths(payload, fields, k) ==
    IF k > Len(BakerFields) THEN 0
    ELSE (IF BakerFields[k] \in fields THEN bakerFieldWidth(payload, BakerFields[k]) ELSE 0)
             + bakerWidths(payload, fields, k + 1)

\* Bit k - 1 of the 16-bit bitmap that follows header and kind tag in a stream.
bitmapBit(stream, k) ==
    (readUIntBE(SubSeq(stream, HEADER_LENGTH + TRANSACTION_KIND_LENGTH + 1,
                       HEADER_LENGTH + TRANSACTION_KIND_LENGTH + BITMAP_LENGTH), 2)
         \div (2 ^ (k - 1))) % 2 = 1

\* A configure-baker payload whose own properties all carry a value: the
\* fields it has are a subset of the optional fields.
IsBakerSubset(c) == c.req.txn.payload.own = c.req.txn.payload.defined

C14_UpdateCredentialsIsCanonical ==
    \A s \in DOMAIN calls :
        LET c == calls[s]
        IN  (c.pc # "idle" /\ c.req.method = "signUpdateCredentials") =>
                /\ serializeAccountTransaction(c.req.txn).ok => c.result.err # "RangeError"
                /\ SentAll(c, "signUpdateCredentials") =>
                       streamOf(c) = serializeAccountTransaction(c.req.txn).bytes


-----------------------------------------------------------------------------
(* Schedules                                                                *)

CeilDiv(a, b) == (a + b - 1) \div b

\* C15: for a schedule of n pairs, 0 <= n <= 255, serializeTransferWithSchedule
\* succeeds and yields exactly ceil(n/15) schedule frames, n * 16 bytes in
\* all, the count n being the one byte that ends the first frame.
C15_ScheduleFrames ==
    \A s \in DOMAIN calls :
        LET c == calls[s]
            n == Len(c.req.txn.payload.schedule)
            p == serializeTransferWithSchedule(c.req.txn, c.req.path)
            first == p.payloadHeaderAddressScheduleLength[1]
        IN  (c.pc # "idle" /\ c.req.method = "signTransferWithSchedule" /\ n <= 255) =>
                /\ p.ok
                /\ Len(p.payloadsSchedule) = CeilDiv(n, MAX_SCHEDULE_CHUNK_SIZE)
                /\ Len(concat(p.payloadsSchedule)) = n * 16
                /\ first[Len(first)] = n


\* The schedule frames a structured serializer returns for the request of a
\* call, and the pairs of that request in schedule order.
ScheduleMethods == {"signTransferWithSchedule", "signTransferWithScheduleAndMemo"}
scheduleSerialized(req) ==
    IF req.method = "signTransferWithSchedule"
    THEN serializeTransferWithSchedule(req.txn, req.path)
    ELSE serializeTransferWithScheduleAndMemo(req.txn, req.path)
pairsInOrder(schedule) == encodeAll(scheduleItems(schedule)).bytes
WholePairs(frames, schedule) ==
    /\ \A k \in 1..Len(frames) :
           /\ Len(frames[k]) % 16 = 0
           /\ Len(frames[k]) \in 16..(16 * MAX_SCHEDULE_CHUNK_SIZE)
    /\ concat(frames) = pairsInOrder(schedule)

\* C16: for every schedule the serializers accept, each schedule frame holds
\* a whole number of 16-byte pairs, between 1 and 15 of them, and the frames
\* in order are the pairs of the schedule in order, each exactly once.
C16_FramesHoldWholePairs ==
    \A s \in DOMAIN calls :
        (calls[s].pc # "idle" /\ calls[s].req.method \in ScheduleMethods
           /\ scheduleSerialized(calls[s].req).ok) =>
            WholePairs(scheduleSerialized(calls[s].req).payloadsSchedule,
                       calls[s].req.txn.payload.schedule)

\* A schedule of more than 30 pairs, cut into more than two frames, the last
\* one shorter than the others, was accepted and its first frame delivered.
C16_Witness ==
    \E s \in DOMAIN calls :
        /\ calls[s].pc # "idle" /\ calls[s].req.method \in ScheduleMethods
        /\ Len(calls[s].req.txn.payload.schedule) > 2 * MAX_SCHEDULE_CHUNK_SIZE
        /\ scheduleSerialized(calls[s].req).ok
        /\ Len(scheduleSerialized(calls[s].req).payloadsSchedule) > 2
        /\ calls[s].log # << >>


-----------------------------------------------------------------------------
(* Memo and data blobs                                                      *)

\* What a structured serializer makes of the blob of a request: the frames
\* that bear the header, the frames that carry the blob, and the blob.
BlobMethods == {"signTransferWithMemo", "signRegisterData", "signTransferWithScheduleAndMemo"}
blobFrames(ok, first, chunks, blob) ==
    IF ok THEN [ok |-> TRUE, first |-> first, chunks |-> chunks, blob |-> blob]
    ELSE [ok |-> FALSE, first |-> << >>, chunks |-> << >>, blob |-> << >>]
memoFrames(p, blob) ==
    blobFrames(p.ok, IF p.ok THEN p.payloadHeaderAddressMemoLength ELSE << >>,
               IF p.ok THEN p.payloadsMemo ELSE << >>, blob)
dataFrames(p, blob) ==
    blobFrames(p.ok, IF p.ok THEN p.payloadHeader ELSE << >>,
               IF p.ok THEN p.payloadsData ELSE << >>, blob)
scheduleAndMemoFrames(p, blob) ==
    blobFrames(p.ok, IF p.ok THEN p.payloadHeaderAddressScheduleLengthAndMemoLength ELSE << >>,
               IF p.ok THEN p.payloadMemo ELSE << >>, blob)
blobSerialized(req) ==
    CASE req.method = "signTransferWithMemo" ->
             memoFrames(serializeSimpleTransferWithMemo(req.txn, req.path), req.txn.payload.memo)
      [] req.method = "signRegisterData" ->
             dataFrames(serializeRegisterData(req.txn, req.path), req.txn.payload.data)
      [] OTHER ->
             scheduleAndMemoFrames(serializeTransferWithScheduleAndMemo(req.txn, req.path),
                                   req.txn.payload.memo)

LastTwo(buf) == SubSeq(buf, Len(buf) - 1, Len(buf))

PrefixThenRawBytes(b) ==
    b.ok => /\ Len(b.first) = 1
            /\ LastTwo(b.first[1]) = BE(Len(b.blob), 2)
            /\ concat(b.chunks) = b.blob

\* C17: for a memo or data blob of L bytes, the 2-byte big-endian prefix at
\* the end of the single header-bearing frame is L, and the chunked frames
\* that follow are the L raw bytes and nothing else.
C17_LengthPrefixInFirstFrame ==
    \A s \in DOMAIN calls :
        (calls[s].pc # "idle" /\ calls[s].req.method \in BlobMethods) =>
            PrefixThenRawBytes(blobSerialized(calls[s].req))

\* A blob whose length needs both bytes of the prefix was accepted and its
\* header-bearing frame delivered.
C17_Witness ==
    \E s \in DOMAIN calls :
        /\ calls[s].pc # "idle" /\ calls[s].req.method = "signRegisterData"
        /\ blobSerialized(calls[s].req).ok
        /\ Len(blobSerialized(calls[s].req).blob) = MaxMemoLen
        /\ Len(blobSerialized(calls[s].req).chunks) = 2
        /\ calls[s].log # << >>


-----------------------------------------------------------------------------
(* The payload size of the header                                           *)

\* The methods whose first frame carries an account transaction header: the
\* ones whose serializer sums the field lengths by hand, and the ones that
\* take the size from the serialized payload.
HandSummedMethods ==
    {"signTransferWithMemo", "signTransferWithSchedule", "signTransferWithScheduleAndMemo",
     "signRegisterData", "signTransferToPublic"}
DerivedMethods ==
    {"signTransfer", "signConfigureDelegation", "signConfigureBaker", "signDeployModule",
     "signInitContract", "signUpdateContract", "signUpdateCredentials"}

\* Everything the frames of a serializer hold after the path, in frame order.
afterPath(ok, path, lists) ==
    IF ok THEN [ok |-> TRUE,
                bytes |-> SubSeq(concat(lists), Len(pathBuffer(path)) + 1, Len(concat(lists)))]
    ELSE [ok |-> FALSE, bytes |-> << >>]
memoProduced(p, path) ==
    afterPath(p.ok, path,
              IF p.ok THEN p.payloadHeaderAddressMemoLength \o p.payloadsMemo \o p.payloadsAmount
              ELSE << >>)
scheduleProduced(p, path) ==
    afterPath(p.ok, path,
              IF p.ok THEN p.payloadHeaderAddressScheduleLength \o p.payloadsSchedule ELSE << >>)
scheduleAndMemoProduced(p, path) ==
    afterPath(p.ok, path,
              IF p.ok THEN p.payloadHeaderAddressScheduleLengthAndMemoLength \o p.payloadMemo
                               \o p.payloadsSchedule
              ELSE << >>)
registerDataProduced(p, path) ==
    afterPath(p.ok, path, IF p.ok THEN p.payloadHeader \o p.payloadsData ELSE << >>)
transferToPublicProduced(p, path) ==
    afterPath(p.ok, path,
              IF p.ok THEN p.payloadHeader \o p.payloadsAmountAndProofsLength \o p.payloadsProofs
              ELSE << >>)
produced(req) ==
    CASE req.method = "signTransferWithMemo" ->
             memoProduced(serializeSimpleTransferWithMemo(req.txn, req.path), req.path)
      [] req.method = "signTransferWithSchedule" ->
             scheduleProduced(serializeTransferWithSchedule(req.txn, req.path), req.path)
      [] req.method = "signTransferWithScheduleAndMemo" ->
             scheduleAndMemoProduced(serializeTransferWithScheduleAndMemo(req.txn, req.path), req.path)
      [] req.method = "signRegisterData" ->
             registerDataProduced(serializeRegisterData(req.txn, req.path), req.path)
      [] req.method = "signTransferToPublic" ->
             transferToPublicProduced(serializeTransferToPublic(req.txn, req.path), req.path)
      [] OTHER -> serializeAccountTransaction(req.txn)

\* The payload-size field: the four bytes after sender, nonce and energy.
sizeField(bytes) == readUIntBE(SubSeq(bytes, HEADER_LENGTH - 11, HEADER_LENGTH - 8), 4)
SizeIsPayloadPlusKind(p) ==
    p.ok => sizeField(p.bytes)
                = Len(SubSeq(p.bytes, HEADER_LENGTH + TRANSACTION_KIND_LENGTH + 1, Len(p.bytes))) + 1

\* C18: whatever the kind, the payload-size field of the header equals the
\* number of bytes that follow the kind tag plus one, for the serializers
\* that sum the field lengths by hand as for the ones that measure the
\* serialized payload.
C18_SizeFieldCountsPayloadAndKind ==
    \A s \in DOMAIN calls :
        (calls[s].pc # "idle"
           /\ calls[s].req.method \in HandSummedMethods \cup DerivedMethods) =>
            SizeIsPayloadPlusKind(produced(calls[s].req))

\* A transfer to public whose proofs fill more than one frame was serialized
\* by hand-summing its field lengths, and its header frame delivered.
C18_Witness ==
    \E s \in DOMAIN calls :
        /\ calls[s].pc # "idle" /\ calls[s].req.method = "signTransferToPublic"
        /\ Len(calls[s].req.txn.payload.proofs) = MaxProofLen
        /\ produced(calls[s].req).ok
        /\ sizeField(produced(calls[s].req).bytes) > MaxProofLen
        /\ calls[s].log # << >>


-----------------------------------------------------------------------------
(* Ranges of the numeric encoders                                           *)

\* The range each encoder is specified to accept.
rangeOf(encoder) ==
    CASE encoder = "encodeInt8" -> [lo |-> Int8Min, hi |-> Int8Max]
      [] encoder = "encodeWord16" -> [lo |-> Zero, hi |-> Word16Max]
      [] encoder = "encodeInt32" -> [lo |-> Int32Min, hi |-> Int32Max]
      [] encoder = "encodeWord32" -> [lo |-> Zero, hi |-> Word32Max]
      [] encoder = "encodeWord64" -> [lo |-> Zero, hi |-> Word64Max]
IntegerWithin(v, r) == v.int /\ ~NumGreater(v, r.hi) /\ ~NumGreater(r.lo, v)
AcceptsExactly(e, r) ==
    /\ e.result.ok <=> IntegerWithin(e.value, r)
    /\ ~e.result.ok => e.result.err = RangeError

\* C19: encodeInt8, encodeWord16, encodeInt32 and encodeWord32 return a
\* buffer exactly for the integers of their range and throw the range error
\* for every other value; encodeWord32 takes 2^32 - 1 and refuses 2^32.
C19_EncodersAcceptTheirRange ==
    (encoding.pc = "returned" /\ encoding.encoder \in Encoders \ {"encodeWord64"}) =>
        /\ AcceptsExactly(encoding, rangeOf(encoding.encoder))
        /\ (encoding.encoder = "encodeWord32" /\ encoding.value = Word32Max) =>
               encoding.result = Encoded(<<255, 255, 255, 255>>)
        /\ (encoding.encoder = "encodeWord32" /\ encoding.value = TwoTo32) =>
               encoding.result = Thrown(RangeError)

\* encodeWord32 has returned the four bytes of 2^32 - 1.
C19_Witness ==
    /\ encoding.pc = "returned" /\ encoding.encoder = "encodeWord32"
    /\ encoding.value = Word32Max /\ encoding.result.ok

\* C20: encodeWord64 returns a buffer exactly for the integers 0..2^64-1
\* and throws the range error for every other value, 2^64 and values that
\* are not integers included.
C20_Word64AcceptsItsRange ==
    (encoding.pc = "returned" /\ encoding.encoder = "encodeWord64") =>
        AcceptsExactly(encoding, rangeOf(encoding.encoder))


-----------------------------------------------------------------------------
(* The path prefix                                                          *)

\* The splitter has returned the frames of a byte sequence behind a path.
SplitWithPath ==
    /\ encoding.pc = "returned"
    /\ encoding.encoder = "serializeTransactionPayloadsWithDerivationPath"
    /\ encoding.value.rawTx # << >>

\* The path prefix of the first frame: everything before the bytes of rawTx.
prefixOf(e) ==
    SubSeq(e.result.bytes[1], 1,
           Len(e.result.bytes[1]) - Min(Len(e.value.rawTx), MAX_CHUNK_SIZE))

AllNumeric(path) == \A i \in 1..Len(path) : path[i].num # NaN

\* Bytes 4i-2 .. 4i+1 of a prefix hold component i: the number in the low 31
\* bits, the hardening marker in the top bit.
HoldsComponent(prefix, i, element) ==
    /\ (prefix[4 * i - 2] % 128) * 16777216 + prefix[4 * i - 1] * 65536
           + prefix[4 * i] * 256 + prefix[4 * i + 1] = element.num
    /\ (prefix[4 * i - 2] >= 128) <=> element.hard

\* C21: a path of k numeric components is encoded in 1 + 4k bytes, the count
\* k and then every component in order as a big-endian 32-bit value with
\* 0x80000000 added exactly when it is hardened; 44'/8217'/0'/0/0 gives
\* 05 8000002c 80002019 80000000 00000000 00000000.
C21_PathEncoding ==
    (SplitWithPath /\ AllNumeric(encoding.value.path)) =>
        /\ Len(prefixOf(encoding)) = 1 + 4 * Len(encoding.value.path)
        /\ prefixOf(encoding)[1] = Len(encoding.value.path)
        /\ \A i \in 1..Len(encoding.value.path) :
               HoldsComponent(prefixOf(encoding), i, encoding.value.path[i])
        /\ encoding.value.path = Derivation =>
               prefixOf(encoding) = << 5, 128, 0, 0, 44, 128, 0, 32, 25, 128, 0, 0, 0,
                                       0, 0, 0, 0, 0, 0, 0, 0 >>

\* The frames of a byte sequence behind 44'/8217'/0'/0/0 have been returned.
C21_Witness ==
    /\ SplitWithPath /\ encoding.value.path = Derivation
    /\ Len(encoding.result.bytes[1]) = 1 + 4 * 5 + Len(encoding.value.rawTx)

\* The components of a path that parse as numbers, in their order.
RECURSIVE parsed(_)
parsed(path) ==
    IF path = << >> THEN << >>
    ELSE IF Head(path).num = NaN THEN parsed(Tail(path))
    ELSE << Head(path) >> \o parsed(Tail(path))

\* C22: a component that does not parse as a number is dropped and nothing
\* is raised: the count byte and the encoded components of the prefix are
\* those of the components that parsed, in their original order.
C22_UnparsedComponentsDropped ==
    SplitWithPath =>
        /\ encoding.result.ok
        /\ Len(prefixOf(encoding)) = 1 + 4 * Len(parsed(encoding.value.path))
        /\ prefixOf(encoding)[1] = Len(parsed(encoding.value.path))
        /\ \A i \in 1..Len(parsed(encoding.value.path)) :
               HoldsComponent(prefixOf(encoding), i, parsed(encoding.value.path)[i])

\* A path with a component that does not parse between two that do has been
\* encoded in front of a frame.
C22_Witness ==
    /\ SplitWithPath
    /\ Len(encoding.value.path) = 3
    /\ encoding.value.path[1].num # NaN /\ encoding.value.path[1].hard
    /\ encoding.value.path[2].num = NaN
    /\ encoding.value.path[3].num # NaN /\ ~encoding.value.path[3].hard
    /\ prefixOf(encoding)[1] = 2


-----------------------------------------------------------------------------
(* Frames of the splitters                                                  *)

\* C23: whatever its input, the empty byte sequence included, a frame
\* splitter returns at least one frame.
C23_AtLeastOneFrame ==
    encoding.pc = "returned" => Len(encoding.result.bytes) >= 1


\* The number of commands the 255-byte limit allows a script when it is
\* applied to total bytes, and the flag of the last of two.
FramesByLimit(script, total) ==
    /\ total <= MAX_CHUNK_SIZE => Len(script) = 1
    /\ (MAX_CHUNK_SIZE < total /\ total <= 2 * MAX_CHUNK_SIZE) =>
           /\ Len(script) = 2
           /\ script[1].p2 = P2_MORE
           /\ script[2].p2 = P2_LAST

\* C24: a streaming call over a path of k components and L canonical bytes
\* sends one frame when 1 + 4k + L <= 255 and exactly two, the second one
\* flagged as the last, when 255 < 1 + 4k + L <= 510.
C24_FrameCountFromPrefixedLength ==
    \A s \in DOMAIN calls :
        (IsStreaming(calls[s]) /\ calls[s].script # << >>) =>
            FramesByLimit(calls[s].script,
                          Len(pathBuffer(calls[s].req.path))
                              + Len(serializeAccountTransaction(calls[s].req.txn).bytes))


-----------------------------------------------------------------------------
(* Configure-baker with stake and keys                                      *)

StakeAndKeysOnly(c) ==
    /\ c.pc # "idle" /\ c.req.method = "signConfigureBaker"
    /\ c.req.txn.payload.own = {"stake", "keys"}
    /\ c.req.txn.payload.defined = {"stake", "keys"}

\* The stages after the header frame: stake and the election and signature
\* keys, then the aggregation keys, then three empty payloads.
StakeThenKeys(script, stake, keys) ==
    /\ Len(script) = 6
    /\ script[2].data = stake \o SubSeq(keys, 1, KEYS_ELECTION_AND_SIGNATURE_LENGTH)
    /\ script[3].data = SubSeq(keys, KEYS_ELECTION_AND_SIGNATURE_LENGTH + 1, Len(keys))
    /\ Len(script[2].data) + Len(script[3].data) = 8 + 352
    /\ Len(script[3].data) = 160
    /\ script[4].data = << >> /\ script[5].data = << >> /\ script[6].data = << >>

\* C25: with only stake and keys present, the stages after the header frame
\* carry exactly 8 + 352 bytes in canonical order: the 8-byte stake and the
\* first 192 key bytes, then the other 160 key bytes; the URL-length, URL and
\* commission payloads are empty.
C25_StakeAndKeysStages ==
    \A s \in DOMAIN calls :
        StakeAndKeysOnly(calls[s]) =>
            StakeThenKeys(calls[s].script,
                          bakerFieldBytes(calls[s].req.txn.payload, "stake"),
                          bakerFieldBytes(calls[s].req.txn.payload, "keys"))

\* A configure-baker call with stake and keys only has sent its six stages.
C25_Witness ==
    \E s \in DOMAIN calls :
        /\ StakeAndKeysOnly(calls[s])
        /\ AllSent(calls[s])
        /\ calls[s].pc = "done"


-----------------------------------------------------------------------------
(* Serializing the same object twice                                        *)

\* C26: a serializer leaves the transaction object of its caller as it was,
\* and a second call with the same object and path returns the frames of
\* the first.
C26_SerializerKeepsTransaction ==
    encoding.pc = "returned" =>
        /\ ~encoding.value.holdsDataBlob
        /\ Len(encoding.result.bytes) = 2 =>
               encoding.result.bytes[2] = encoding.result.bytes[1]


-----------------------------------------------------------------------------
\* The calls of the two address checks, and which form a call takes.
IsVerify(c) == c.pc # "idle" /\ c.req.method \in {"verifyAddress", "verifyAddressLegacy"}
IsLegacyForm(c) ==
    c.req.method = "verifyAddressLegacy" \/ (rev = RevB /\ c.req.isLegacy)

Int32Bytes(value) == encodeInt32(value).bytes

\* The command of an address check: instruction 0, stage tag 0 over the two
\* integers of the legacy form, stage tag 1 over the three of the current one.
VerifyCommand(command, req, legacy) ==
    /\ command.ins = INS_VERIFY_ADDRESS
    /\ command.p2 = NONE
    /\ IF legacy
       THEN /\ command.p1 = 0
            /\ command.data = Int32Bytes(req.id) \o Int32Bytes(req.cred)
       ELSE /\ command.p1 = 1
            /\ Len(command.data) = 12
            /\ command.data \in
                   {Int32Bytes(req.idp) \o Int32Bytes(req.id) \o Int32Bytes(req.cred),
                    Int32Bytes(req.id) \o Int32Bytes(req.idp) \o Int32Bytes(req.cred)}

\* C27: verifyAddress and verifyAddressLegacy never raise.  A call of either
\* sends at most one command, the one of its form; once it has finished it
\* has returned a status, "success" exactly when the transport accepted the
\* reply to that command and "failed" in every other case (an argument the
\* encoder rejects, a status word the transport does not accept, a failure
\* of the transport).
C27_VerifyNeverRaises ==
    \A s \in DOMAIN calls :
        IsVerify(calls[s]) =>
            /\ Len(calls[s].log) <= 1
            /\ \A i \in 1..Len(calls[s].log) :
                   VerifyCommand(sent(calls[s])[i], calls[s].req, IsLegacyForm(calls[s]))
            /\ calls[s].pc = "done" =>
                   /\ calls[s].result.kind = "value"
                   /\ calls[s].result.value.status \in {"success", "failed"}
                   /\ calls[s].result.value.status = "success" <=> calls[s].replied = << 1 >>

\* A current-form check that the transport failed has returned "failed".
C27_Witness ==
    /\ calls[1].pc = "done"
    /\ calls[1].req.method = "verifyAddress"
    /\ ~IsLegacyForm(calls[1])
    /\ Len(calls[1].log) = 1
    /\ calls[1].failure = "TransportStatusError"
    /\ calls[1].result.kind = "value"
    /\ calls[1].result.value.status = "failed"


-----------------------------------------------------------------------------
\* C28: the command of getPublicKey carries stage tag P1_CONFIRM (0x01) when
\* the display flag is true and P1_NON_CONFIRM (0x00) when it is false or
\* left out.
C28_DisplayAsksConfirmation ==
    \A s \in DOMAIN calls :
        (calls[s].pc # "idle" /\ calls[s].req.method = "getPublicKey"
             /\ Len(calls[s].log) >= 1) =>
            sent(calls[s])[1].p1 =
                IF calls[s].req.display = "true" THEN P1_CONFIRM ELSE P1_NON_CONFIRM


-----------------------------------------------------------------------------
\* The payload of the last stage of a credential deployment: the
\* discriminator byte, then the expiry in eight bytes, high byte first, or
\* the bytes the address string spells in hexadecimal.
IsCredentialDeployment(c) == c.pc # "idle" /\ c.req.method = "signCredentialDeployment"

FitsWord64(value) == ~value.neg /\ value.int /\ Len(value.mag) <= 8

AccountDatum(data, req) ==
    IF req.isNew
    THEN FitsWord64(req.addressOrExpiry.expiry) =>
             /\ Len(data) = 9
             /\ data[1] = 0
             /\ \A i \in 1..8 :
                    data[1 + i] = IF i <= 8 - Len(req.addressOrExpiry.expiry.mag) THEN 0
                                  ELSE req.addressOrExpiry.expiry.mag[
                                           i - (8 - Len(req.addressOrExpiry.expiry.mag))]
    ELSE /\ Len(data) = 1 + Len(req.addressOrExpiry.address) \div 2
         /\ data[1] = 1
         /\ toHex(Tail(data)) = req.addressOrExpiry.address

\* C29: in signCredentialDeployment the command with stage tag 0x09 is the
\* last command of the call and the only one whose reply the method keeps;
\* a call that ends with a signature or a decline ends on the reply to it.
\* Its payload is byte 0 followed by the 8-byte big-endian expiry for a new
\* account, byte 1 followed by the bytes of the account address otherwise.
C29_NewOrExistingIsTerminal ==
    \A s \in DOMAIN calls :
        IsCredentialDeployment(calls[s]) =>
            /\ \A i \in 1..Len(calls[s].script) :
                   /\ (calls[s].script[i].t = "send"
                          /\ calls[s].script[i].p1 = P1_NEW_OR_EXISTING) =>
                          /\ i = Len(calls[s].script)
                          /\ calls[s].script[i].keep
                          /\ AccountDatum(calls[s].script[i].data, calls[s].req)
                   /\ calls[s].script[i].keep => i = Len(calls[s].script)
            /\ (calls[s].pc = "done" /\ calls[s].result.kind = "signature") =>
                   /\ sent(calls[s])[Len(calls[s].log)].p1 = P1_NEW_OR_EXISTING
                   /\ calls[s].log[Len(calls[s].log)] = Len(calls[s].script)
                   /\ calls[s].result.signature = toHex(calls[s].lastReply)
            /\ (calls[s].pc = "done" /\ calls[s].result = UserDeclined) =>
                   /\ sent(calls[s])[Len(calls[s].log)].p1 = P1_NEW_OR_EXISTING
                   /\ Len(calls[s].lastReply) = 1

\* A deployment for an existing account has ended with a signature.
C29_Witness ==
    /\ IsCredentialDeployment(calls[1])
    /\ ~calls[1].req.isNew
    /\ Len(calls[1].req.addressOrExpiry.address) = 64
    /\ calls[1].pc = "done"
    /\ calls[1].result.kind = "signature"
    /\ sent(calls[1])[Len(calls[1].log)].p1 = P1_NEW_OR_EXISTING


-----------------------------------------------------------------------------
\* A byte written in decimal, without leading zeros.
DigitText(d) == << "0", "1", "2", "3", "4", "5", "6", "7", "8", "9" >>[d + 1]
ByteText(b) ==
    IF b < 10 THEN << DigitText(b) >>
    ELSE IF b < 100 THEN << DigitText(b \div 10), DigitText(b % 10) >>
    ELSE << DigitText(b \div 100), DigitText((b \div 10) % 10), DigitText(b % 10) >>

\* C30: a getVersion call sends exactly one command, instruction 0x03 with
\* P1 = P2 = 0 and an empty payload, and from an accepted reply of at least
\* three data bytes it returns the version string major.minor.patch made of
\* the first three of them written in decimal.
C30_GetVersion ==
    \A s \in DOMAIN calls :
        (calls[s].pc # "idle" /\ calls[s].req.method = "getVersion") =>
            /\ Len(calls[s].log) = 1
            /\ sent(calls[s])[1].ins = 3
            /\ sent(calls[s])[1].p1 = 0
            /\ sent(calls[s])[1].p2 = 0
            /\ sent(calls[s])[1].data = << >>
            /\ (calls[s].pc = "done" /\ calls[s].replied = << 1 >>
                    /\ Len(calls[s].lastReply) >= 3) =>
                   /\ calls[s].result.kind = "value"
                   /\ calls[s].result.value.version =
                          ByteText(calls[s].lastReply[1]) \o << "." >>
                              \o ByteText(calls[s].lastReply[2]) \o << "." >>
                              \o ByteText(calls[s].lastReply[3])

\* getVersion has returned 12.0.255 from a reply of four data bytes.
C30_Witness ==
    /\ calls[1].pc = "done"
    /\ calls[1].req.method = "getVersion"
    /\ calls[1].lastReply = << 12, 0, 255, 9 >>
    /\ calls[1].result.kind = "value"
    /\ calls[1].result.value.version = << "1", "2", ".", "0", ".", "2", "5", "5" >>


-----------------------------------------------------------------------------
\* The calls of the signing methods that have got as far as their script.
IsSigning(c) == c.pc # "idle" /\ c.req.method \in SigningMethods(rev) /\ c.script # << >>

\* C31: only the reply to the terminal stage is interpreted.  After a reply
\* to a stage that is not the last, whatever its length, the call has not
\* finished with the decline error and has gone on to the next stage; once
\* every stage is replied the result is the decline error when the last
\* reply has one byte and the signature made of the last reply otherwise.
C31_OnlyTerminalReplyInterpreted ==
    \A s \in DOMAIN calls :
        IsSigning(calls[s]) =>
            /\ (Len(calls[s].replied) < Len(calls[s].script) /\ calls[s].failedAt = 0) =>
                   /\ calls[s].result # UserDeclined
                   /\ calls[s].result.kind # "signature"
                   /\ calls[s].script[Len(calls[s].replied) + 1].t = "send" =>
                          /\ calls[s].pc = "awaiting"
                          /\ Len(calls[s].log) = Len(calls[s].replied) + 1
            /\ Len(calls[s].replied) = Len(calls[s].script) =>
                   /\ calls[s].pc = "done"
                   /\ calls[s].result =
                          IF Len(calls[s].lastReply) = 1 THEN UserDeclined
                          ELSE Signature(toHex(calls[s].lastReply))


-----------------------------------------------------------------------------
(* Stage order of signUpdateCredentials                                     *)

Tag(p1, p2) == [p1 |-> p1, p2 |-> p2]

\* The stages of one new credential: index, key count, key, threshold, AR
\* data, dates, a tag and a value stage per revealed attribute, proof length
\* and one proof stage per 255 proof bytes begun.
CredentialTags(cred) ==
    << Tag(0, 1), Tag(10, 2), Tag(1, 2), Tag(2, 2), Tag(3, 2), Tag(4, 2) >>
        \o [j \in 1..(2 * Len(cred.attributes)) |-> Tag(IF j % 2 = 1 THEN 5 ELSE 6, 2)]
        \o << Tag(7, 2) >>
        \o [k \in 1..CeilDiv(Len(cred.proofs), 255) |-> Tag(8, 2)]

RECURSIVE CredentialsTags(_)
CredentialsTags(creds) ==
    IF creds = << >> THEN << >>
    ELSE CredentialTags(Head(creds)) \o CredentialsTags(Tail(creds))

StageOrder(payload) ==
    << Tag(0, 0) >> \o CredentialsTags(payload.newCredentials) \o << Tag(0, 3) >>
        \o [k \in 1..Len(payload.removeCredentialIds) |-> Tag(0, 4)] \o << Tag(0, 5) >>

TagsOf(commands) == [i \in 1..Len(commands) |-> Tag(commands[i].p1, commands[i].p2)]

IsPrefix(a, b) == Len(a) <= Len(b) /\ \A i \in 1..Len(a) : a[i] = b[i]

-----------------------------------------------------------------------------
(* Stage order of signConfigureBaker                                        *)

\* The optional fields each stage after the header carries.
StageFields(k) ==
    CASE k = 2 -> {"stake", "restakeEarnings", "openForDelegation", "keys"}
      [] k = 3 -> {"keys"}
      [] k = 4 -> {"metadataUrl"}
      [] k = 5 -> {"metadataUrl"}
      [] k = 6 -> {"transactionFeeCommission", "bakingRewardCommission",
                   "finalizationRewardCommission"}

\* C33: a signConfigureBaker call has six commands to send, with stage tags
\* 0, 1, 2, 3, 4, 5 in that order, whichever optional fields the payload has;
\* the stage of fields that are all absent is among them, its payload empty;
\* the commands are handed over in that order and a call that has ended with
\* a signature or the decline error has sent all six.
C33_BakerSendsSixStages ==
    \A s \in DOMAIN calls :
        (calls[s].pc # "idle" /\ calls[s].req.method = "signConfigureBaker") =>
            /\ Len(calls[s].script) = 6
            /\ \A k \in 1..6 :
                   /\ calls[s].script[k].t = "send"
                   /\ calls[s].script[k].ins = INS_SIGN_CONFIGURE_BAKER
                   /\ calls[s].script[k].p1 = k - 1
                   /\ calls[s].script[k].p2 = 0
            /\ \A k \in 2..6 :
                   StageFields(k) \cap calls[s].req.txn.payload.own = {} =>
                       calls[s].script[k].data = << >>
            /\ Len(calls[s].log) >= 1
            /\ \A i \in 1..Len(calls[s].log) : calls[s].log[i] = i
            /\ (calls[s].pc = "done" /\ calls[s].failedAt = 0) => Len(calls[s].log) = 6

\* A configure-baker call whose payload has no optional field has sent six
\* commands, the last five of them empty, and has been signed.
C33_Witness ==
    /\ calls[1].req.method = "signConfigureBaker"
    /\ calls[1].req.txn.payload.own = {}
    /\ calls[1].pc = "done"
    /\ calls[1].result.kind = "signature"
    /\ Len(calls[1].log) = 6
    /\ \A k \in 2..6 : sent(calls[1])[k].data = << >>


-----------------------------------------------------------------------------
(* Where the path encoding travels                                          *)

\* The signing calls whose serializer is in src.
SerializedInSrc(c) ==
    /\ IsSigning(c)
    /\ ~(rev = RevB /\ c.req.method \in {"signDeployModule", "signPublicInfoForIp",
                                         "signCredentialDeployment"})

BeginsWith(buf, prefix) == IsPrefix(prefix, buf)

\* C34: the payload of the first command of a signing call begins with the
\* path encoding, which is not repeated behind itself, and no later command
\* of the call, sent or still to send, has a payload that begins with it.
C34_PathSentOnce ==
    \A s \in DOMAIN calls :
        SerializedInSrc(calls[s]) =>
            /\ calls[s].script[1].t = "send"
            /\ calls[s].log[1] = 1
            /\ BeginsWith(calls[s].script[1].data, pathBuffer(calls[s].req.path))
            /\ ~BeginsWith(SubSeq(calls[s].script[1].data,
                                  Len(pathBuffer(calls[s].req.path)) + 1,
                                  Len(calls[s].script[1].data)),
                           pathBuffer(calls[s].req.path))
            /\ \A k \in 2..Len(calls[s].script) :
                   ~BeginsWith(calls[s].script[k].data, pathBuffer(calls[s].req.path))
            /\ \A i \in 2..Len(calls[s].log) : calls[s].log[i] # 1

\* A transfer of three frames over a five-component path has been signed.
C34_Witness ==
    /\ SerializedInSrc(calls[1])
    /\ calls[1].req.method = "signTransfer"
    /\ Len(calls[1].req.path) = MaxPathLen
    /\ Len(calls[1].log) = 3
    /\ calls[1].pc = "done"
    /\ calls[1].result.kind = "signature"


-----------------------------------------------------------------------------
(* Termination and frame sizes of the splitters                             *)

\* The input bytes frame k of a returned list holds: all of the frame, less
\* the path encoding in the first frame of the splitter that is given a path.
InputBytes(e, k) ==
    IF k = 1 /\ e.encoder = "serializeTransactionPayloadsWithDerivationPath"
    THEN SubSeq(e.result.bytes[1], Len(pathBuffer(e.value.path)) + 1, Len(e.result.bytes[1]))
    ELSE e.result.bytes[k]

\* ceil(L/255) frames, 255 input bytes in each but the last, 1 to 255 in the
\* last, and together the input.
FramesOfInput(e, L) ==
    /\ Len(e.result.bytes) = CeilDiv(L, 255)
    /\ \A k \in 1..(Len(e.result.bytes) - 1) : Len(InputBytes(e, k)) = 255
    /\ Len(e.result.bytes) >= 1 =>
           Len(InputBytes(e, Len(e.result.bytes))) \in 1..255
    /\ concat([k \in 1..Len(e.result.bytes) |-> InputBytes(e, k)]) = e.value.rawTx

\* C35: a frame splitter called on L bytes returns, and what it returns is
\* ceil(L/255) frames, each but the last holding exactly 255 input bytes and
\* the last between 1 and 255.
C35_SplitterTerminates ==
    /\ <>(encoding.pc = "returned")
    /\ [](encoding.pc = "returned" => FramesOfInput(encoding, Len(encoding.value.rawTx)))

\* The plain splitter has returned three frames for 511 bytes.
C35_Witness ==
    /\ encoding.pc = "returned"
    /\ encoding.encoder = "serializeTransactionPayloads"
    /\ Len(encoding.value.rawTx) = 2 * MAX_CHUNK_SIZE + 1
    /\ Len(encoding.result.bytes) = 3
    /\ Len(encoding.result.bytes[3]) = 1


-----------------------------------------------------------------------------
(* Progress of a signing call                                               *)

\* A call that waits waits on exactly one outstanding command, it has handed
\* over no more commands than its script holds, each once, and when it has
\* finished it has a signature, the decline error or another error.
WaitsOnOneCommand(c) ==
    /\ c.pc = "awaiting" => c.inflight = 1 /\ Len(c.log) = Len(c.replied) + 1
    /\ c.pc = "done" => c.inflight = 0 /\ c.result.kind \in {"signature", "error"}
    /\ Len(c.log) <= Len(c.script)
    /\ \A i \in 1..Len(c.log) : c.log[i] = i

\* C36: with a transport that answers every command, by a reply or by an
\* error, every signing call that has been started finishes, with a
\* signature, the decline error or another error, having sent no more
\* commands than its script holds; while it waits, it waits on the answer to
\* its one outstanding command.
C36_EveryCallFinishes ==
    /\ [](calls[1].pc # "idle" => WaitsOnOneCommand(calls[1]))
    /\ (calls[1].pc # "idle") ~> (calls[1].pc = "done")

\* An update-credentials call of more than twenty commands has finished.
C36_Witness ==
    /\ calls[1].pc = "done"
    /\ calls[1].req.method = "signUpdateCredentials"
    /\ Len(calls[1].log) > 20
    /\ Len(calls[1].log) = Len(calls[1].script)
    /\ calls[1].inflight = 0
    /\ calls[1].result = UserDeclined


-----------------------------------------------------------------------------
\* An integer below -2^31 or above 2^31 - 1, read off its magnitude.
Outside32(v) ==
    /\ v.int
    /\ \/ Len(v.mag) > 4
       \/ Len(v.mag) = 4 /\ ~v.neg /\ v.mag[1] >= 128
       \/ Len(v.mag) = 4 /\ v.neg /\ v.mag[1] >= 128 /\ v.mag # << 128, 0, 0, 0 >>

\* The numbers a call of an address check encodes: id and cred, and idp in
\* the current form.
EncodedArguments(c) ==
    IF IsLegacyForm(c) THEN {c.req.id, c.req.cred} ELSE {c.req.idp, c.req.id, c.req.cred}

\* C37: a verifyAddress call with an identity, identity-provider or
\* credential number outside the 32-bit signed range has finished at once
\* with status "failed": it has handed no command to the transport and the
\* range error of the encoder has not reached the caller.
C37_OutOfRangeFailsWithoutCommand ==
    \A s \in DOMAIN calls :
        (IsVerify(calls[s]) /\ \E v \in EncodedArguments(calls[s]) : Outside32(v)) =>
            /\ calls[s].pc = "done"
            /\ calls[s].log = << >>
            /\ wire = << >>
            /\ calls[s].result.kind = "value"
            /\ calls[s].result.value.status = "failed"

\* The current form with an identity provider of 2^31 and the other two
\* numbers in range has returned "failed".
C37_Witness ==
    /\ calls[1].pc = "done"
    /\ calls[1].req.method = "verifyAddress"
    /\ rev = RevA
    /\ calls[1].req.idp = AboveInt32
    /\ calls[1].req.id = Int32Max
    /\ calls[1].req.cred = NumNeg(1)
    /\ calls[1].log = << >>
    /\ calls[1].result.kind = "value"
    /\ calls[1].result.value.status = "failed"


-----------------------------------------------------------------------------
\* C38: a signing call whose terminal stage is answered with no data bytes
\* (the status word only) returns the empty signature string and raises no
\* error; it ends with the decline error only when that reply has exactly
\* one data byte.
C38_EmptyTerminalReplyIsSuccess ==
    \A s \in DOMAIN calls :
        (IsSigning(calls[s]) /\ calls[s].pc = "done"
             /\ Len(calls[s].replied) = Len(calls[s].script)) =>
            /\ calls[s].lastReply = << >> => calls[s].result = Signature(<< >>)
            /\ calls[s].result = UserDeclined <=> Len(calls[s].lastReply) = 1


-----------------------------------------------------------------------------
\* The streaming calls of SpecLong that have built their commands.
LongStreamed == encoding.pc = "returned" /\ encoding.script.ok

\* C39: in a streaming call the stage tag of the i-th command, counting from
\* 0, is i itself, never reduced to one byte: a transaction of more than
\* 256 * 255 canonical bytes has more than 256 commands and the tags of
\* those after the 256th are above 255; up to that length every tag is at
\* most 255.
C39_StageTagUnbounded ==
    LongStreamed =>
        /\ \A k \in 1..Len(encoding.script.steps) : encoding.script.steps[k].p1 = k - 1
        /\ encoding.canonical > 256 * 255 =>
               /\ Len(encoding.script.steps) > 256
               /\ \A k \in 257..Len(encoding.script.steps) :
                      encoding.script.steps[k].p1 > 255
        /\ encoding.canonical <= 256 * 255 =>
               \A k \in 1..Len(encoding.script.steps) : encoding.script.steps[k].p1 <= 255

\* A transaction of 256 * 255 + 1 canonical bytes: 257 commands, the last
\* with stage tag 256.
C39_Witness ==
    /\ LongStreamed
    /\ encoding.canonical = 256 * 255 + 1
    /\ Len(encoding.script.steps) = 257
    /\ encoding.script.steps[257].p1 = 256
    /\ encoding.script.steps[257].p2 = P2_LAST

=============================================================================
